---- MODULE Spec2Model ----
(***************************************************************************)
(* A model of the persistent code-execution session of ds_toolkit          *)
(* (src/code_tool.py, class JupyterCodeExecutor).                          *)
(*                                                                         *)
(* Text is modelled as a sequence of atoms.  An atom is a string that      *)
(* stands for an indivisible run of characters: the newline "\n", the      *)
(* blank " ", the markdown fence (```),   the shell marker "!", a word       *)
(* ("pip", "python"), or a piece of Python or shell text that contains no  *)
(* whitespace ("x=5", "print('before')").  Python's str operations         *)
(* (split, strip, join, replace, the regular expression of _clean_code)    *)
(* are modelled on these sequences as the code performs them on            *)
(* characters.                                                             *)
(***************************************************************************)
EXTENDS Integers, Sequences, FiniteSets, TLC

VARIABLES
    context,    \* self._context: the namespace, a function name -> value
    history,    \* self._history: the cleaned fragments, in submission order
    installed,  \* the libraries importable in the host environment
    result,     \* outcome of the latest entry-point call
    trace,      \* what the latest call did, in order (shell lines, evaluation)
    calls,      \* number of execute calls made so far
    uuids,      \* number of uuid4() values drawn so far
    pyrun,      \* the evaluator's part of the latest call (its invocation record)
    code,       \* input of the normalizer (SpecClean) or the partitioner (SpecLines)
                \* run on its own
    cleaned,    \* output of the normalizer
    partition,  \* output of the partitioner
    submitted,  \* the string passed to the latest execute call
    streams,    \* sys.stdout and sys.stderr: what each one is bound to
    shellrun,   \* the shell runner run on its own (SpecShell)
    rewrite,    \* the last-expression rewrite run on its own (SpecRewrite)
    db,         \* DatabaseConnection: _engine, _connection_string, _dialect
    dbresult    \* outcome of the latest database tool call

vars == <<context, history, installed, result, trace, calls, uuids, pyrun, code, cleaned,
          partition, submitted, streams, shellrun, rewrite, db, dbresult>>

\* ---------------------------------------------------------------- bounds
MaxCalls == 2
MaxLen == 6

\* ------------------------------------------------------------------ text
NL == "\n"
SP == " "
\* The atom standing for the three backquotes of a markdown fence (a backquote
\* cannot be written in a TLA+ string).
Fence == "[fence]"
Bang == "!"

\* \s of the regular expressions, str.split() and str.strip()
IsSpace(c) == c \in {SP, NL}

\* Atoms made only of [A-Za-z0-9_], which \w* matches.
WordAtoms == {"python", "py", "pip", "pip3", "conda", "install", "rm", "shutdown",
              "reboot", "del", "format", "mv", "dd", "kill", "echo", "hi", "ls",
              "pandas", "numpy", "data", "None", "x", "pd"}
IsWord(c) == c \in WordAtoms

Max(S) == CHOOSE m \in S : \A k \in S : k <= m
Min(S) == CHOOSE m \in S : \A k \in S : m <= k

\* Number of consecutive whitespace atoms of s starting at position i.
SpaceRun(s, i) ==
    LET stops == {j \in i..Len(s) : ~IsSpace(s[j])}
    IN  IF stops = {} THEN (IF i > Len(s) THEN 0 ELSE Len(s) - i + 1) ELSE Min(stops) - i

\* Number of consecutive word atoms of s starting at position i.
WordRun(s, i) ==
    LET stops == {j \in i..Len(s) : ~IsWord(s[j])}
    IN  IF stops = {} THEN (IF i > Len(s) THEN 0 ELSE Len(s) - i + 1) ELSE Min(stops) - i

\* ------------------------------------------------------- _clean_code
\* The tail of the pattern, \n\s*```\s*$, matched with its \n at position j.
\* ($ also matches before a final newline; \s* absorbs that case.)
TailMatches(s, j) ==
    /\ j <= Len(s)
    /\ s[j] = NL
    /\ LET f == j + 1 + SpaceRun(s, j + 1)
       IN  /\ f <= Len(s)
           /\ s[f] = Fence
           /\ SpaceRun(s, f + 1) = Len(s) - f

\* _clean_code with a pattern that allows no language tag after the fence.
clean_code_untagged(s) ==
    LET open == 1 + SpaceRun(s, 1)
        ks   == {k \in 0..SpaceRun(s, open + 1) :
                    /\ open + k + 1 <= Len(s)
                    /\ s[open + k + 1] = NL
                    /\ \E j \in (open + k + 2)..Len(s) : TailMatches(s, j)}
    IN  IF open > Len(s) \/ s[open] # Fence \/ ks = {}
        THEN s
        ELSE LET g0 == open + Max(ks) + 2
                 j  == Min({i \in g0..Len(s) : TailMatches(s, i)})
             IN  SubSeq(s, g0, j - 1)

\* The tail of a pattern without its final $: \n\s*``` at position j.
TailOpen(s, j) ==
    /\ j <= Len(s)
    /\ s[j] = NL
    /\ j + 1 + SpaceRun(s, j + 1) <= Len(s)
    /\ s[j + 1 + SpaceRun(s, j + 1)] = Fence

\* _clean_code with a pattern that is not anchored at the end of the string.
clean_code_open_end(s) ==
    LET open == 1 + SpaceRun(s, 1)
        t    == open + WordRun(s, open + 1)
        ks   == {k \in 0..SpaceRun(s, t + 1) :
                    /\ t + k + 1 <= Len(s)
                    /\ s[t + k + 1] = NL
                    /\ \E j \in (t + k + 2)..Len(s) : TailOpen(s, j)}
    IN  IF open > Len(s) \/ s[open] # Fence \/ ks = {}
        THEN s
        ELSE LET g0 == t + Max(ks) + 2
                 j  == Min({i \in g0..Len(s) : TailOpen(s, i)})
             IN  SubSeq(s, g0, j - 1)

\* pattern = r'^\s*```(?:\w*)\s*\n(.*?)\n\s*```\s*$' with re.DOTALL, re.search.
\* ^ anchors the search at position 1.  The first \s* and \w* are followed by
\* atoms outside their class, so only their longest match can succeed.  The
\* second \s* is greedy and may give back whitespace (a newline is whitespace):
\* the match found is the one with the longest such run k for which the rest
\* matches, and then the shortest group (.*?).
clean_code(s) ==
    LET open == 1 + SpaceRun(s, 1)
        t    == open + WordRun(s, open + 1)
        ks   == {k \in 0..SpaceRun(s, t + 1) :
                    /\ t + k + 1 <= Len(s)
                    /\ s[t + k + 1] = NL
                    /\ \E j \in (t + k + 2)..Len(s) : TailMatches(s, j)}
    IN  IF open > Len(s) \/ s[open] # Fence \/ ks = {}
        THEN s
        ELSE LET g0 == t + Max(ks) + 2
                 j  == Min({i \in g0..Len(s) : TailMatches(s, i)})
             IN  SubSeq(s, g0, j - 1)

\* ---------------------------------------------------- str operations
\* str.split(sep) for a one-atom separator: the pieces between separators.
RECURSIVE split(_, _)
split(s, sep) ==
    LET hits == {i \in 1..Len(s) : s[i] = sep}
    IN  IF hits = {} THEN <<s>>
        ELSE <<SubSeq(s, 1, Min(hits) - 1)>>
             \o split(SubSeq(s, Min(hits) + 1, Len(s)), sep)

\* str.strip(): leading and trailing whitespace removed.
strip(s) ==
    LET keep == {i \in 1..Len(s) : ~IsSpace(s[i])}
    IN  IF keep = {} THEN <<>> ELSE SubSeq(s, Min(keep), Max(keep))

\* str.split() without argument: the maximal runs of non-whitespace.
RECURSIVE tokenize(_)
tokenize(s) ==
    LET t  == strip(s)
        sp == {i \in 1..Len(t) : IsSpace(t[i])}
        e  == IF sp = {} THEN Len(t) ELSE Min(sp) - 1
    IN  IF t = <<>> THEN <<>>
        ELSE <<SubSeq(t, 1, e)>> \o tokenize(SubSeq(t, e + 1, Len(t)))

\* sep.join(parts)
RECURSIVE join(_, _)
join(parts, sep) ==
    IF parts = <<>> THEN <<>>
    ELSE IF Len(parts) = 1 THEN parts[1]
    ELSE parts[1] \o sep \o join(Tail(parts), sep)

\* line.replace('!', '', 1): the first shell marker removed.
replace_first_bang(line) ==
    LET hits == {i \in 1..Len(line) : line[i] = Bang}
    IN  IF hits = {} THEN line
        ELSE SubSeq(line, 1, Min(hits) - 1) \o SubSeq(line, Min(hits) + 1, Len(line))

\* ------------------------------------------------------------ values
\* A Python value: its type and a printable payload.
IntV(n)    == [t |-> "int", v |-> n]
StrV(x)    == [t |-> "str", v |-> x]
NoneV      == [t |-> "NoneType", v |-> "None"]
ModuleV(m) == [t |-> "module", v |-> m]
FuncV(f)   == [t |-> "function", v |-> f]
\* An instance of a class whose __repr__ cannot be called.
UnreprV    == [t |-> "object", v |-> "U"]

\* repr(value): the text shown for a value; Raises for one repr() fails on.
ReprRaises(val) == val.t = "object"
repr(val) ==
    CASE val.t = "str"      -> <<"'", val.v, "'">>
      [] val.t = "module"   -> <<"<module '", val.v, "'>">>
      [] val.t = "function" -> <<"<function ", val.v, ">">>
      [] OTHER              -> <<val.v>>

\* ----------------------------------------------- _initialize_context
DefaultModules == {"os", "sys", "math", "json", "io", "pathlib", "subprocess"}
DefaultNames == {"__builtins__", "print", "help"} \cup DefaultModules

initialize_context ==
    [n \in DefaultNames |->
        CASE n = "__builtins__" -> ModuleV("builtins")
          [] n = "print"        -> FuncV("_custom_print")
          [] n = "help"         -> FuncV("help")
          [] OTHER              -> ModuleV(n)]

\* self._auto_imports, in order: alias, module, and the top-level package that
\* __import__(module) returns.
auto_imports ==
    << [alias |-> "pd",      module |-> "pandas",            top |-> "pandas"],
       [alias |-> "np",      module |-> "numpy",             top |-> "numpy"],
       [alias |-> "plt",     module |-> "matplotlib.pyplot", top |-> "matplotlib"],
       [alias |-> "sns",     module |-> "seaborn",           top |-> "seaborn"],
       [alias |-> "sklearn", module |-> "sklearn",           top |-> "sklearn"],
       [alias |-> "torch",   module |-> "torch",             top |-> "torch"],
       [alias |-> "tf",      module |-> "tensorflow",        top |-> "tensorflow"] >>

AutoAliases == {auto_imports[i].alias : i \in 1..Len(auto_imports)}

\* f with name n bound to value v (dict assignment).
Bind(f, n, v) == [m \in (DOMAIN f) \cup {n} |-> IF m = n THEN v ELSE f[m]]
\* f without name n (del).
Unbind(f, n) == [m \in (DOMAIN f) \ {n} |-> f[m]]

\* auto_import binding every importable alias, present in the context or not.
RECURSIVE auto_import_overwrite(_, _, _)
auto_import_overwrite(ctx, inst, i) ==
    IF i > Len(auto_imports) THEN ctx
    ELSE LET e == auto_imports[i]
         IN  IF e.top \in inst
             THEN auto_import_overwrite(Bind(ctx, e.alias, ModuleV(e.top)), inst, i + 1)
             ELSE auto_import_overwrite(ctx, inst, i + 1)

\* The loop over self._auto_imports at the head of _run_python: an alias not
\* in the context is bound when its module can be imported (ImportError: pass).
RECURSIVE auto_import(_, _, _)
auto_import(ctx, inst, i) ==
    IF i > Len(auto_imports) THEN ctx
    ELSE LET e == auto_imports[i]
         IN  IF e.alias \notin DOMAIN ctx /\ e.top \in inst
             THEN auto_import(Bind(ctx, e.alias, ModuleV(e.top)), inst, i + 1)
             ELSE auto_import(ctx, inst, i + 1)

\* ------------------------------------------------- submitted Python
\* The statements the model's Python understands, each one atom.
Assignments ==
    [atom \in {"x=5", "y=1", "pd=7"} |->
        CASE atom = "x=5"  -> [name |-> "x",  val |-> IntV("5")]
          [] atom = "y=1"  -> [name |-> "y",  val |-> IntV("1")]
          [] atom = "pd=7" -> [name |-> "pd", val |-> IntV("7")]]
AssignAtoms == DOMAIN Assignments
DelAtoms == {"del(x)"}
AssertAtoms == {"assert(0)"}
Keywords == {"del"}
\* Names found in the builtins when the context does not bind them.
Builtins == {"format"}
NameAtoms == WordAtoms \ (Keywords \cup {"None"})
ExprAtoms == NameAtoms \cup {"None", "x+1", "'a'+'b'", "print('before')", "print(1)",
                             "print(2)", "1/0", "sys.exit()",
                             "type('U',(),{'__repr__':None})()"}
StmtAtoms == AssignAtoms \cup DelAtoms \cup AssertAtoms \cup ExprAtoms

\* The exceptions of the model: NoExc, a subclass of Exception, or SystemExit
\* (a BaseException that is no Exception).
NoExc == "none"
ExcException == "Exception"
ExcSystemExit == "SystemExit"

Plus1 == [n \in {"1", "5", "7"} |-> CASE n = "1" -> "2" [] n = "5" -> "6" [] n = "7" -> "8"]

Outcome(exc, val, out) == [exc |-> exc, val |-> val, out |-> out]

\* Evaluation of an expression atom in the namespace ctx: the exception it
\* raises if any, its value, and what it writes to sys.stdout.
Eval(atom, ctx) ==
    CASE atom = "None"     -> Outcome(NoExc, NoneV, <<>>)
      [] atom = "'a'+'b'"  -> Outcome(NoExc, StrV("ab"), <<>>)
      [] atom = "print('before')" -> Outcome(NoExc, NoneV, <<"before", NL>>)
      [] atom = "print(1)" -> Outcome(NoExc, NoneV, <<"1", NL>>)
      [] atom = "print(2)" -> Outcome(NoExc, NoneV, <<"2", NL>>)
      [] atom = "1/0"      -> Outcome(ExcException, NoneV, <<>>)
      [] atom = "sys.exit()" -> Outcome(ExcSystemExit, NoneV, <<>>)
      [] atom = "type('U',(),{'__repr__':None})()" -> Outcome(NoExc, UnreprV, <<>>)
      [] atom = "x+1" ->
            IF "x" \in DOMAIN ctx /\ ctx["x"].t = "int" /\ ctx["x"].v \in DOMAIN Plus1
            THEN Outcome(NoExc, IntV(Plus1[ctx["x"].v]), <<>>)
            ELSE Outcome(ExcException, NoneV, <<>>)     \* NameError, TypeError
      [] OTHER ->                                       \* a name
            IF atom \in DOMAIN ctx THEN Outcome(NoExc, ctx[atom], <<>>)
            ELSE IF atom \in Builtins THEN Outcome(NoExc, FuncV(atom), <<>>)
            ELSE Outcome(ExcException, NoneV, <<>>)     \* NameError

\* A node of the module body handed to exec: a statement as written, or the
\* assignment ast.Assign(targets=[Name(temp_var)], value=last_expr.value).
Node(atom) == [assignTo |-> "", atom |-> atom]
AssignNode(target, atom) == [assignTo |-> target, atom |-> atom]

Effect(ctx, out, exc) == [ctx |-> ctx, out |-> out, exc |-> exc]

\* One statement executed in ctx.
ExecNode(node, ctx) ==
    IF node.assignTo # ""
    THEN LET r == Eval(node.atom, ctx)
         IN  IF r.exc = NoExc THEN Effect(Bind(ctx, node.assignTo, r.val), r.out, NoExc)
             ELSE Effect(ctx, r.out, r.exc)
    ELSE IF node.atom \in AssignAtoms
    THEN Effect(Bind(ctx, Assignments[node.atom].name, Assignments[node.atom].val), <<>>, NoExc)
    ELSE IF node.atom \in DelAtoms
    THEN IF "x" \in DOMAIN ctx THEN Effect(Unbind(ctx, "x"), <<>>, NoExc)
         ELSE Effect(ctx, <<>>, ExcException)           \* NameError
    ELSE IF node.atom \in AssertAtoms
    THEN Effect(ctx, <<>>, ExcException)                \* AssertionError
    ELSE LET r == Eval(node.atom, ctx) IN Effect(ctx, r.out, r.exc)

\* ExecBody giving back the namespace it started from when a statement raises.
RECURSIVE ExecBody_rollback(_, _)
ExecBody_rollback(body, ctx) ==
    IF body = <<>> THEN Effect(ctx, <<>>, NoExc)
    ELSE LET first == ExecNode(body[1], ctx)
         IN  IF first.exc # NoExc THEN first
             ELSE LET rest == ExecBody_rollback(Tail(body), first.ctx)
                  IN  Effect(IF rest.exc # NoExc THEN ctx ELSE rest.ctx,
                             first.out \o rest.out, rest.exc)

\* exec(code, self._context): the statements in order, on the namespace itself,
\* until one raises; everything written and bound before the raise stays.
RECURSIVE ExecBody(_, _)
ExecBody(body, ctx) ==
    IF body = <<>> THEN Effect(ctx, <<>>, NoExc)
    ELSE LET first == ExecNode(body[1], ctx)
         IN  IF first.exc # NoExc THEN first
             ELSE LET rest == ExecBody(Tail(body), first.ctx)
                  IN  Effect(rest.ctx, first.out \o rest.out, rest.exc)

\* ast.parse(code): one statement per line.  A line is blank, or one statement
\* atom at column 0 followed by blanks only; anything else (indentation, two
\* atoms on a line, a fence, text that is no Python) is a SyntaxError.
LineIsBlank(line) == strip(line) = <<>>
LineIsStmt(line) ==
    /\ line # <<>>
    /\ line[1] \in StmtAtoms
    /\ strip(line) = <<line[1]>>
Parses(pycode) ==
    \A i \in 1..Len(split(pycode, NL)) :
        LET line == split(pycode, NL)[i] IN LineIsBlank(line) \/ LineIsStmt(line)
\* parsed.body: the statements of the non-blank lines.
RECURSIVE Body(_)
Body(lines) ==
    IF lines = <<>> THEN <<>>
    ELSE IF LineIsBlank(lines[1]) THEN Body(Tail(lines))
    ELSE <<lines[1][1]>> \o Body(Tail(lines))
parse_body(pycode) == Body(split(pycode, NL))

\* isinstance(parsed.body[-1], ast.Expr)
IsExpr(atom) == atom \in ExprAtoms

\* -------------------------------------------------------- _run_python
\* temp_var = f"__temp_{uuid.uuid4().hex}": the n-th uuid drawn.  uuid4 values
\* are modelled as pairwise distinct.
TempNames == <<"__temp_u1", "__temp_u2", "__temp_u3", "__temp_u4",
               "__temp_u5", "__temp_u6", "__temp_u7", "__temp_u8">>
TempNameSet == {TempNames[i] : i \in 1..Len(TempNames)}
temp_var(n) == TempNames[n]

\* traceback.print_exc(file=sys.stderr)
Traceback(what) == <<"Traceback (most recent call last):", NL, what, NL>>

LastExprLabel == "[Last expression result]: "
LastExprUnable == "[Last expression result] (unable to represent)"

\* Nodes leaving the final expression out instead of assigning it.
Nodes_drop_last(body, tmp) ==
    IF body # <<>> /\ IsExpr(body[Len(body)])
    THEN [i \in 1..(Len(body) - 1) |-> Node(body[i])]
    ELSE [i \in 1..Len(body) |-> Node(body[i])]

\* The body as executed: the last statement, when it is an expression,
\* replaced by the assignment to the temporary name.
Rewritten(body) == body # <<>> /\ IsExpr(body[Len(body)])
Nodes(body, tmp) ==
    IF Rewritten(body)
    THEN [i \in 1..Len(body) |->
            IF i = Len(body) THEN AssignNode(tmp, body[i]) ELSE Node(body[i])]
    ELSE [i \in 1..Len(body) |-> Node(body[i])]

\* last_expr_text with str() in place of repr().
last_expr_text_str(hasValue, val) ==
    IF hasValue /\ val # NoneV
    THEN IF ReprRaises(val) THEN <<NL, LastExprUnable>>
         ELSE <<NL, LastExprLabel, val.v>>
    ELSE <<>>

\* last_expr_text without the test "is not None".
last_expr_text_always(hasValue, val) ==
    IF ReprRaises(val) THEN <<NL, LastExprUnable>>
    ELSE <<NL, LastExprLabel>> \o repr(val)

\* last_expr_text appending nothing when repr() fails.
last_expr_text_no_placeholder(hasValue, val) ==
    IF hasValue /\ val # NoneV /\ ~ReprRaises(val)
    THEN <<NL, LastExprLabel>> \o repr(val)
    ELSE <<>>

\* The text appended to stdout for last_expr_value (lines 206-211).
last_expr_text(hasValue, val) ==
    IF hasValue /\ val # NoneV
    THEN IF ReprRaises(val) THEN <<NL, LastExprUnable>>
         ELSE <<NL, LastExprLabel>> \o repr(val)
    ELSE <<>>

PyResult(ctx, stdout, stderr, escaped, parsed, rewritten, raised) ==
    [ctx |-> ctx, stdout |-> stdout, stderr |-> stderr, escaped |-> escaped,
     parsed |-> parsed, rewritten |-> rewritten, raised |-> raised]

\* Lines 199-213: eff is what exec did.  A subclass of Exception is caught and
\* its trace printed to the captured stderr; SystemExit is no Exception and
\* leaves the function (escaped).  last_expr_value is set only when exec and
\* eval(temp_var) completed.
capture(body, eff, tmp) ==
    PyResult(eff.ctx,
             eff.out \o last_expr_text(Rewritten(body) /\ eff.exc = NoExc,
                                       IF Rewritten(body) /\ eff.exc = NoExc
                                       THEN eff.ctx[tmp] ELSE NoneV),
             IF eff.exc = ExcException THEN Traceback("Exception") ELSE <<>>,
             IF eff.exc = ExcSystemExit THEN ExcSystemExit ELSE NoExc,
             TRUE, Rewritten(body), eff.exc)

\* Lines 171-198: the parsed body, rewritten or not, executed on the namespace.
execute_body(body, ctx, tmp) == capture(body, ExecBody(Nodes(body, tmp), ctx), tmp)

\* _run_python executing in a new default namespace on every call.
run_python_fresh(pycode, ctx, inst, tmp) ==
    IF ~Parses(pycode)
    THEN PyResult(auto_import(initialize_context, inst, 1), <<>>,
                  Traceback("SyntaxError"), NoExc, FALSE, FALSE, ExcException)
    ELSE execute_body(parse_body(pycode), auto_import(initialize_context, inst, 1), tmp)

\* _run_python running the lines that are statements when the text does not
\* parse.
run_python_lenient(pycode, ctx, inst, tmp) ==
    execute_body(Body(SelectSeq(split(pycode, NL), LineIsStmt)), auto_import(ctx, inst, 1), tmp)

\* _run_python(code) on namespace ctx with the libraries inst importable and
\* tmp the temporary name a rewrite would use.  ast.parse is inside the try:
\* a SyntaxError goes to the handler and nothing is executed.
run_python(pycode, ctx, inst, tmp) ==
    IF ~Parses(pycode)
    THEN PyResult(auto_import(ctx, inst, 1), <<>>, Traceback("SyntaxError"),
                  NoExc, FALSE, FALSE, ExcException)
    ELSE execute_body(parse_body(pycode), auto_import(ctx, inst, 1), tmp)

\* --------------------------------------------------------- _run_shell
dangerous_commands == {"rm", "shutdown", "reboot", "del", "format", "mv", "dd", "kill"}
Refusal == <<"ERROR: Potentially dangerous command blocked for security reasons">>

\* A host process started by subprocess.run: through the host shell with the
\* command line as written (shell=True), or directly with an argument vector.
NoProc == [shell |-> FALSE, cmdline |-> <<>>, argv |-> <<>>]
ShellProc(command) == [shell |-> TRUE, cmdline |-> command, argv |-> <<>>]
ArgvProc(argv) == [shell |-> FALSE, cmdline |-> <<>>, argv |-> argv]

\* What a subprocess can do: exit with a code and its two captured streams, or
\* fail to start (OSError from subprocess.run).
ProcOutcomes ==
    { [kind |-> "exit", rc |-> "0", out |-> <<"hi", NL>>, err |-> <<>>],
      [kind |-> "exit", rc |-> "0", out |-> <<>>, err |-> <<>>],
      [kind |-> "exit", rc |-> "1", out |-> <<"part", NL>>, err |-> <<"failed", NL>>],
      [kind |-> "oserror", rc |-> "", out |-> <<>>, err |-> <<>>] }

\* Completed without check=True: the two streams whatever the exit code.
Completed_unchecked(prefix, oc) ==
    IF oc.kind # "exit" THEN <<>> ELSE oc.out \o oc.err

\* check=True: CalledProcessError on a non-zero exit, formatted with the prefix.
\* (No text is returned when subprocess.run raises anything else.)
Completed(prefix, oc) ==
    IF oc.kind # "exit" THEN <<>>
    ELSE IF oc.rc = "0" THEN oc.out \o oc.err
    ELSE <<prefix, NL>> \o oc.out \o <<NL>> \o oc.err \o <<NL, "Return code: ", oc.rc>>

ShellResult(text, proc, raised) == [text |-> text, proc |-> proc, raised |-> raised]

\* IsPipInstall recognising the name pip only.
IsPipInstall_only_pip(tokens) ==
    /\ Len(tokens) >= 2
    /\ tokens[1] = <<"pip">>
    /\ tokens[2] = <<"install">>

IsPipInstall(tokens) ==
    /\ Len(tokens) >= 2
    /\ tokens[1] \in {<<"pip">>, <<"pip3">>}
    /\ tokens[2] = <<"install">>
IsCondaInstall(tokens) ==
    /\ Len(tokens) >= 2
    /\ tokens[1] = <<"conda">>
    /\ tokens[2] = <<"install">>
\* IsDangerous looking at the first token only.
IsDangerous_first_token(tokens) ==
    \E d \in dangerous_commands : tokens[1] = <<d>>

\* any(token in dangerous_commands for token in tokens)
IsDangerous(tokens) ==
    \E i \in 1..Len(tokens) : \E d \in dangerous_commands : tokens[i] = <<d>>

\* new_command = [sys.executable, "-m", "pip", "install"] + tokens[2:]
pip_command(tokens) ==
    << <<"sys.executable">>, <<"-m">>, <<"pip">>, <<"install">> >>
        \o SubSeq(tokens, 3, Len(tokens))

\* _run_shell(command) when the subprocess it starts, if any, ends as oc.
run_shell(command, oc) ==
    LET tokens == tokenize(command)
    IN  IF tokens = <<>> THEN ShellResult(<<>>, NoProc, FALSE)
        ELSE IF IsPipInstall(tokens)
        THEN ShellResult(Completed("PIP INSTALL ERROR:", oc),
                         ArgvProc(pip_command(tokens)), oc.kind = "oserror")
        ELSE IF IsCondaInstall(tokens)
        THEN ShellResult(Completed("CONDA INSTALL ERROR:", oc),
                         ShellProc(command), oc.kind = "oserror")
        ELSE IF IsDangerous(tokens)
        THEN ShellResult(Refusal, NoProc, FALSE)
        ELSE ShellResult(Completed("SHELL COMMAND ERROR:", oc),
                         ShellProc(command), oc.kind = "oserror")

\* The libraries a successful "pip install" of the current interpreter makes
\* importable.
Libraries == {auto_imports[i].top : i \in 1..Len(auto_imports)}
Installs(command, oc) ==
    LET tokens == tokenize(command)
    IN  IF IsPipInstall(tokens) /\ oc.kind = "exit" /\ oc.rc = "0"
        THEN {l \in Libraries : \E i \in 3..Len(tokens) : tokens[i] = <<l>>}
        ELSE {}

\* --------------------------------------------------------------- _run
\* The loop over cleaned_code.split('\n') (lines 226-234).
\* IsShellLine testing the line as written, not its stripped form.
IsShellLine_unstripped(line) == line # <<>> /\ line[1] = Bang

IsShellLine(line) == strip(line) # <<>> /\ strip(line)[1] = Bang
RECURSIVE shell_commands(_)
shell_commands(lines) ==
    IF lines = <<>> THEN <<>>
    ELSE LET cmd == strip(replace_first_bang(lines[1]))
         IN  (IF IsShellLine(lines[1]) /\ cmd # <<>> THEN <<cmd>> ELSE <<>>)
             \o shell_commands(Tail(lines))
RECURSIVE python_lines(_)
python_lines(lines) ==
    IF lines = <<>> THEN <<>>
    ELSE (IF IsShellLine(lines[1]) THEN <<>> ELSE <<lines[1]>>)
         \o python_lines(Tail(lines))

\* What a call did, in order: a shell line with the process started for it, how
\* that process ended and the text _run_shell returned; or the evaluation of
\* the code lines.
NoExit == [kind |-> "none", rc |-> "", out |-> <<>>, err |-> <<>>]
ShellEvent(cmd, r, oc) ==
    [ev |-> "shell", cmd |-> cmd, proc |-> r.proc, text |-> r.text,
     exit |-> IF r.proc = NoProc THEN NoExit ELSE oc]
PythonEvent(pycode) ==
    [ev |-> "python", cmd |-> pycode, proc |-> NoProc, text |-> <<>>, exit |-> NoExit]

\* run_shell_all leaving the loop after a refused line or a non-zero exit.
RECURSIVE run_shell_all_stopping(_, _)
run_shell_all_stopping(cmds, ocs) ==
    IF cmds = <<>>
    THEN [outputs |-> <<>>, events |-> <<>>, raised |-> FALSE, installs |-> {}]
    ELSE LET r == run_shell(cmds[1], ocs[1])
         IN  IF r.raised
             THEN [outputs |-> <<>>, events |-> <<ShellEvent(cmds[1], r, ocs[1])>>,
                   raised |-> TRUE, installs |-> {}]
             ELSE LET stop == r.text = Refusal
                                \/ (r.proc # NoProc /\ ocs[1].kind = "exit" /\ ocs[1].rc # "0")
                      rest == IF stop
                              THEN [outputs |-> <<>>, events |-> <<>>, raised |-> FALSE,
                                    installs |-> {}]
                              ELSE run_shell_all_stopping(Tail(cmds), Tail(ocs))
                  IN  [outputs  |-> << <<"Executing: ">> \o cmds[1], r.text >> \o rest.outputs,
                       events   |-> <<ShellEvent(cmds[1], r, ocs[1])>> \o rest.events,
                       raised   |-> rest.raised,
                       installs |-> Installs(cmds[1], ocs[1]) \cup rest.installs]

\* The loop over shell_commands (lines 237-241), the i-th subprocess ending as
\* ocs[i].  An exception of subprocess.run other than CalledProcessError ends
\* the loop (raised).
RECURSIVE run_shell_all(_, _)
run_shell_all(cmds, ocs) ==
    IF cmds = <<>>
    THEN [outputs |-> <<>>, events |-> <<>>, raised |-> FALSE, installs |-> {}]
    ELSE LET r == run_shell(cmds[1], ocs[1])
         IN  IF r.raised
             THEN [outputs |-> <<>>, events |-> <<ShellEvent(cmds[1], r, ocs[1])>>,
                   raised |-> TRUE, installs |-> {}]
             ELSE LET rest == run_shell_all(Tail(cmds), Tail(ocs))
                  IN  [outputs  |-> << <<"Executing: ">> \o cmds[1], r.text >> \o rest.outputs,
                       events   |-> <<ShellEvent(cmds[1], r, ocs[1])>> \o rest.events,
                       raised   |-> rest.raised,
                       installs |-> Installs(cmds[1], ocs[1]) \cup rest.installs]

NoPython == [ran |-> FALSE, code |-> <<>>, stdout |-> <<>>, stderr |-> <<>>,
             parsed |-> FALSE, rewritten |-> FALSE, executed |-> FALSE,
             raised |-> NoExc, temp |-> ""]

Returned(op, text) == [op |-> op, kind |-> "return", text |-> text, exc |-> NoExc]
Raised(op, exc) == [op |-> op, kind |-> "raise", text |-> <<>>, exc |-> exc]

NoOutput == <<"Code executed successfully with no output">>
ShellHeader == "SHELL OUTPUT:"
StdoutHeader == "PYTHON STDOUT:"
StderrHeader == "PYTHON STDERR:"
ErrorPrefix == "EXECUTION ERROR: "

\* python_output emitting both sections whatever the streams hold.
python_output_unconditional(stdout, stderr) ==
    << <<StdoutHeader, NL>> \o stdout, <<StderrHeader, NL>> \o stderr >>

\* python_output (lines 244-251)
python_output(stdout, stderr) ==
    (IF stdout # <<>> THEN << <<StdoutHeader, NL>> \o stdout >> ELSE <<>>)
    \o (IF stderr # <<>> THEN << <<StderrHeader, NL>> \o stderr >> ELSE <<>>)

\* observation with the Python sections put before the shell section.
observation_python_first(shell_outputs, py_output) ==
    LET all_outputs ==
            (IF py_output # <<>> THEN <<join(py_output, <<NL>>)>> ELSE <<>>)
            \o (IF shell_outputs # <<>>
                THEN << <<ShellHeader, NL>> \o join(shell_outputs, <<NL>>) >> ELSE <<>>)
    IN  IF all_outputs # <<>> THEN join(all_outputs, <<NL, NL>>) ELSE NoOutput

\* observation leaving out the shell section when no shell line printed.
observation_quiet_shell(shell_outputs, py_output) ==
    LET printed == \E i \in 1..Len(shell_outputs) : i % 2 = 0 /\ shell_outputs[i] # <<>>
        all_outputs ==
            (IF printed
             THEN << <<ShellHeader, NL>> \o join(shell_outputs, <<NL>>) >> ELSE <<>>)
            \o (IF py_output # <<>> THEN <<join(py_output, <<NL>>)>> ELSE <<>>)
    IN  IF all_outputs # <<>> THEN join(all_outputs, <<NL, NL>>) ELSE NoOutput

\* all_outputs joined (lines 254-260)
observation(shell_outputs, py_output) ==
    LET all_outputs ==
            (IF shell_outputs # <<>>
             THEN << <<ShellHeader, NL>> \o join(shell_outputs, <<NL>>) >> ELSE <<>>)
            \o (IF py_output # <<>> THEN <<join(py_output, <<NL>>)>> ELSE <<>>)
    IN  IF all_outputs # <<>> THEN join(all_outputs, <<NL, NL>>) ELSE NoOutput

RunResult(ctx, hist, inst, nuuid, events, py, res) ==
    [ctx |-> ctx, hist |-> hist, inst |-> inst, nuuid |-> nuuid,
     trace |-> events, py |-> py, result |-> res]

PyRecord(pycode, py, tmp) ==
    [ran |-> TRUE, code |-> pycode, stdout |-> py.stdout, stderr |-> py.stderr,
     parsed |-> py.parsed, rewritten |-> py.rewritten, executed |-> py.parsed,
     raised |-> py.raised, temp |-> IF py.rewritten THEN tmp ELSE ""]

\* combine with the code lines evaluated before the shell lines are run.
combine_python_first(hist, sh, pycode, py, inst, nuuid, tmp) ==
    RunResult(py.ctx, hist, inst, IF py.rewritten THEN nuuid + 1 ELSE nuuid,
              <<PythonEvent(pycode)>> \o sh.events, PyRecord(pycode, py, tmp),
              IF py.escaped # NoExc THEN Raised("execute", py.escaped)
              ELSE Returned("execute",
                            observation(sh.outputs, python_output(py.stdout, py.stderr))))

\* Lines 247-260: the evaluation py of the code lines put into the observation,
\* unless an exception escaped it.
combine(hist, sh, pycode, py, inst, nuuid, tmp) ==
    RunResult(py.ctx, hist, inst, IF py.rewritten THEN nuuid + 1 ELSE nuuid,
              sh.events \o <<PythonEvent(pycode)>>, PyRecord(pycode, py, tmp),
              IF py.escaped # NoExc THEN Raised("execute", py.escaped)
              ELSE Returned("execute",
                            observation(sh.outputs, python_output(py.stdout, py.stderr))))

\* Lines 243-263 once the shell lines have run (sh).  An exception of the shell
\* loop reaches the handler of line 262.
run_code(hist, sh, pyl, ctx, inst, nuuid) ==
    IF sh.raised
    THEN RunResult(ctx, hist, inst \cup sh.installs, nuuid, sh.events, NoPython,
                   Returned("execute", <<ErrorPrefix, "OSError", NL>> \o Traceback("OSError")))
    ELSE IF pyl = <<>>
    THEN RunResult(ctx, hist, inst \cup sh.installs, nuuid, sh.events, NoPython,
                   Returned("execute", observation(sh.outputs, <<>>)))
    ELSE combine(hist, sh, join(pyl, <<NL>>),
                 run_python(join(pyl, <<NL>>), ctx, inst \cup sh.installs, temp_var(nuuid + 1)),
                 inst \cup sh.installs, nuuid, temp_var(nuuid + 1))

\* run_cleaned without the append of line 220.
run_cleaned_unlogged(cleaned_code, ocs, ctx, hist, inst, nuuid) ==
    run_code(hist,
             run_shell_all(shell_commands(split(cleaned_code, NL)), ocs),
             python_lines(split(cleaned_code, NL)), ctx, inst, nuuid)

\* Lines 220-241: the cleaned text logged, partitioned, its shell lines run.
run_cleaned(cleaned_code, ocs, ctx, hist, inst, nuuid) ==
    run_code(Append(hist, cleaned_code),
             run_shell_all(shell_commands(split(cleaned_code, NL)), ocs),
             python_lines(split(cleaned_code, NL)), ctx, inst, nuuid)

\* _run(code) in the state (ctx, hist, inst, nuuid), the subprocesses of its
\* shell lines ending as ocs: the state it leaves and what the caller gets.
run(raw, ocs, ctx, hist, inst, nuuid) ==
    run_cleaned(clean_code(raw), ocs, ctx, hist, inst, nuuid)

\* ------------------------------------------------------ reset_context
ResetConfirmation == <<"Context reset successfully">>

\* reset_context writing the defaults over the namespace in place.
reset_context_update(ctx, hist) ==
    [ctx  |-> [n \in (DOMAIN ctx) \cup DefaultNames |->
                 IF n \in DefaultNames THEN initialize_context[n] ELSE ctx[n]],
     hist |-> hist, text |-> ResetConfirmation]

\* reset_context emptying the history too.
reset_context_clear_history(ctx, hist) ==
    [ctx |-> initialize_context, hist |-> <<>>, text |-> ResetConfirmation]

\* reset_context() on namespace ctx and history hist: the namespace is replaced
\* by a new default one; self._history is not touched.
reset_context(ctx, hist) ==
    [ctx |-> initialize_context, hist |-> hist, text |-> ResetConfirmation]

\* ------------------------------------------------------------- inputs
\* The raw strings submitted to the entry point.
Inputs ==
    { <<"x=5">>,
      <<"x+1">>,
      <<"y=1">>,
      <<"pd=7">>,
      <<"'a'+'b'">>,
      <<"None">>,
      <<"print('before')">>,
      <<"print('before')", NL, "1/0">>,
      <<"print('before')", NL, "y=1">>,
      <<"print('before')", NL, "sys.exit()">>,
      <<"del(x)">>,
      <<"x=">>,
      <<"x=5", NL, "x=">>,
      <<>>,
      <<"type('U',(),{'__repr__':None})()">>,
      <<"print('before')", NL, "type('U',(),{'__repr__':None})()">>,
      <<Fence, "python", NL, "print(1)", NL, Fence>>,
      <<Bang, "echo", SP, "hi", NL, "print(2)">>,
      <<"print(2)", NL, Bang, "echo", SP, "hi", NL, SP, Bang, "ls">>,
      <<Bang>>,
      <<Bang, "rm", SP, "data", NL, Bang, "echo", SP, "hi", NL, "print(2)">>,
      <<"x=5", NL, "1/0", NL, "y=1", NL, "x+1">>,
      <<Bang, "rm", SP, "-rf", SP, "data">>,
      <<Bang, "ls", SP, "/tmp/rmdir">>,
      <<Bang, "ls;rm">>,
      <<Bang, "echo", SP, "kill">>,
      <<Bang, "pip", SP, "install", SP, "pandas">>,
      <<Bang, "pip3", SP, "install", SP, "numpy">>,
      <<Bang, "pip3.11", SP, "install", SP, "pandas">>,
      <<Bang, "conda", SP, "install", SP, "numpy", SP, ";", SP, "rm", SP, "-rf", SP, "data">> }

\* The libraries importable when the session starts.
Environments == { {}, {"numpy"}, {"pandas"} }

\* ------------------------------------------------------------ streams
\* sys.stdout and sys.stderr when the session starts.
OriginalStreams == [stdout |-> "sys.__stdout__", stderr |-> "sys.__stderr__"]
\* contextlib.redirect_stdout / redirect_stderr entered (line 166-167): the
\* streams are the two StringIO objects and the old targets are kept.
Redirect(old) ==
    [now |-> [stdout |-> "stdout_capture", stderr |-> "stderr_capture"], old |-> old]
\* __exit__ of the two context managers: the old targets are set again.
Restore(r) == r.old

\* The streams after _run_python when the with block is left only by falling
\* off its end, an escaping exception skipping the restoration.
streams_after_python_on_completion(old, raised) ==
    IF raised = ExcSystemExit THEN Redirect(old).now ELSE Restore(Redirect(old))

\* The streams after _run_python: the with block of lines 166-200 is left on
\* every path (end of block, exception caught inside, exception escaping)
\* through __exit__.
streams_after_python(old, raised) == Restore(Redirect(old))

\* ------------------------------------------------------ specification
NotRun == [done |-> FALSE]
NotRewritten == [done |-> FALSE]
NotConnected == [engine |-> "None", connection_string |-> <<>>, dialect |-> ""]
NoDbResult == [tool |-> "none", kind |-> "return", text |-> <<>>]
NoResult == [op |-> "none", kind |-> "return", text |-> <<>>, exc |-> NoExc]
NotCleaned == [done |-> FALSE, text |-> <<>>]
NotParted == [done |-> FALSE, shell |-> <<>>, python |-> <<>>]

\* The state after JupyterCodeExecutor() (lines 55-67).
Init ==
    /\ context = initialize_context
    /\ history = <<>>
    /\ installed \in Environments
    /\ result = NoResult
    /\ trace = <<>>
    /\ calls = 0
    /\ uuids = 0
    /\ pyrun = NoPython
    /\ code = <<>>
    /\ cleaned = NotCleaned
    /\ partition = NotParted
    /\ submitted = <<>>
    /\ streams = OriginalStreams
    /\ shellrun = NotRun
    /\ rewrite = NotRewritten
    /\ db = NotConnected
    /\ dbresult = NoDbResult

\* One call of the entry point _run.
Execute ==
    /\ calls < MaxCalls
    /\ \E raw \in Inputs :
         \E ocs \in [1..Len(shell_commands(split(clean_code(raw), NL))) -> ProcOutcomes] :
            \E r \in {run(raw, ocs, context, history, installed, uuids)} :
                /\ context' = r.ctx
                /\ history' = r.hist
                /\ installed' = r.inst
                /\ uuids' = r.nuuid
                /\ trace' = r.trace
                /\ pyrun' = r.py
                /\ result' = r.result
                /\ submitted' = raw
                /\ streams' = IF r.py.ran THEN streams_after_python(streams, r.py.raised)
                              ELSE streams
    /\ calls' = calls + 1
    /\ UNCHANGED <<code, cleaned, partition, shellrun, rewrite, db, dbresult>>

\* One call of reset_context (lines 265-268).
Reset ==
    /\ \E r \in {reset_context(context, history)} :
          /\ context' = r.ctx
          /\ history' = r.hist
          /\ result' = Returned("reset", r.text)
    /\ trace' = <<>>
    /\ pyrun' = NoPython
    /\ UNCHANGED <<installed, calls, uuids, code, cleaned, partition, submitted, streams,
                   shellrun, rewrite, db, dbresult>>

Next == Execute \/ Reset

Spec == Init /\ [][Next]_vars

\* ------------------------------------------- the normalizer on its own
\* _clean_code applied to every string of at most MaxLen atoms over a fence,
\* a newline, a blank, a word and a piece of text that is no word.
CleanAlphabet == {Fence, NL, SP, "python", "x=5"}
\* Longer inputs: two fenced blocks one after the other, and a fenced block
\* after a line of text.
CleanExamples ==
    { <<Fence, NL, "x=5", NL, Fence, NL, Fence, NL, "x=5", NL, Fence>>,
      <<Fence, "python", NL, "x=5", NL, Fence, NL, NL, Fence, "python", NL, "x=5", NL, Fence, NL>>,
      <<"x=5", NL, Fence, "python", NL, "x=5", NL, Fence>> }
CleanInputs == UNION {[1..n -> CleanAlphabet] : n \in 0..MaxLen} \cup CleanExamples

InitClean ==
    /\ context = initialize_context
    /\ history = <<>>
    /\ installed = {}
    /\ result = NoResult
    /\ trace = <<>>
    /\ calls = 0
    /\ uuids = 0
    /\ pyrun = NoPython
    /\ code \in CleanInputs
    /\ cleaned = NotCleaned
    /\ partition = NotParted
    /\ submitted = <<>>
    /\ streams = OriginalStreams
    /\ shellrun = NotRun
    /\ rewrite = NotRewritten
    /\ db = NotConnected
    /\ dbresult = NoDbResult

Clean ==
    /\ ~cleaned.done
    /\ cleaned' = [done |-> TRUE, text |-> clean_code(code)]
    /\ UNCHANGED <<context, history, installed, result, trace, calls, uuids, pyrun, code,
                   partition, submitted, streams, shellrun, rewrite, db, dbresult>>

SpecClean == InitClean /\ [][Clean]_vars

\* --------------------------------------- the shell runner on its own
\* _run_shell applied to every command of one to three tokens, its subprocess
\* ending in one of ProcOutcomes or never ending.
ShellTokens == {"pip", "pip3", "conda", "install", "pandas", "rm", "ls"}
ShellInputs ==
    {<<a>> : a \in ShellTokens}
        \cup {<<a, SP, b>> : a, b \in ShellTokens}
        \cup {<<a, SP, b, SP, c>> : a, b, c \in ShellTokens}

\* A subprocess that never exits and writes nothing.
Hang == [kind |-> "hang", rc |-> "", out |-> <<>>, err |-> <<>>]

\* subprocess.run is called without timeout= in all three branches (lines
\* 109-114, 122-128, 140-146): it waits until the process has exited, so
\* _run_shell returns only if the process it started exits.
shell_returns(command, oc) ==
    run_shell(command, oc).proc = NoProc \/ oc.kind # "hang"

InitShell ==
    /\ context = initialize_context
    /\ history = <<>>
    /\ installed = {}
    /\ result = NoResult
    /\ trace = <<>>
    /\ calls = 0
    /\ uuids = 0
    /\ pyrun = NoPython
    /\ code \in ShellInputs
    /\ cleaned = NotCleaned
    /\ partition = NotParted
    /\ submitted = <<>>
    /\ streams = OriginalStreams
    /\ shellrun = NotRun
    /\ rewrite = NotRewritten
    /\ db = NotConnected
    /\ dbresult = NoDbResult

RunShell ==
    /\ ~shellrun.done
    /\ \E oc \in ProcOutcomes \cup {Hang} :
          shellrun' = [done     |-> TRUE,
                       oc       |-> oc,
                       res      |-> run_shell(code, oc),
                       returned |-> shell_returns(code, oc)]
    /\ UNCHANGED <<context, history, installed, result, trace, calls, uuids, pyrun, code,
                   cleaned, partition, submitted, streams, rewrite, db, dbresult>>

SpecShell == InitShell /\ [][RunShell]_vars

\* ---------------------------------------------------- database toolkit
\* The cross mark and the check mark that open the tools' answers.
Cross == "[x] "
Check == "[ok] "

\* Position of the first atom a in s, 0 when there is none.
FirstIndex(s, a) ==
    IF \E i \in 1..Len(s) : s[i] = a
    THEN CHOOSE i \in 1..Len(s) : s[i] = a /\ \A j \in 1..(i - 1) : s[j] # a
    ELSE 0

SchemeSep == "://"
SchemeWords == {"sqlite", "postgresql", "sample"}
\* re.match(r"^\w+://", connection_string)
IsUrl(cs) == Len(cs) >= 2 /\ cs[1] \in SchemeWords /\ cs[2] = SchemeSep

\* _mask_credentials
mask_credentials(cs) ==
    IF FirstIndex(cs, SchemeSep) = 0 THEN cs
    ELSE LET k        == FirstIndex(cs, SchemeSep)
             protocol == SubSeq(cs, 1, k - 1)
             rest     == SubSeq(cs, k + 1, Len(cs))
             at       == FirstIndex(rest, "@")
             user_part == SubSeq(rest, 1, at - 1)
             host_part == SubSeq(rest, at + 1, Len(rest))
             colon    == FirstIndex(user_part, ":")
         IN  IF at # 0 /\ colon # 0
             THEN protocol \o <<SchemeSep>> \o SubSeq(user_part, 1, colon - 1)
                      \o <<":", "******", "@">> \o host_part
             ELSE protocol \o <<SchemeSep, "******">>

\* The six places connect looks for a file, in order.
possible_paths(cs) ==
    << cs, cs \o <<".db">>, cs \o <<".sqlite">>,
       <<"./">> \o cs, <<"./">> \o cs \o <<".db">>, <<"./">> \o cs \o <<".sqlite">> >>
\* os.path.abspath
abspath(path) ==
    <<"/cwd/">> \o (IF path # <<>> /\ path[1] = "./" THEN Tail(path) ELSE path)
\* The files the working directory can hold when connect looks.
FileSystems == { {}, {<<"sample", ".db">>}, {<<"sample">>, <<"sample", ".db">>} }
FirstExisting(cs, fs) ==
    IF \E i \in 1..6 : possible_paths(cs)[i] \in fs
    THEN CHOOSE i \in 1..6 :
             /\ possible_paths(cs)[i] \in fs
             /\ \A j \in 1..(i - 1) : possible_paths(cs)[j] \notin fs
    ELSE 0

\* What create_engine and the test query can do.
ConnectOutcomes == [create : {"ok", "raise"}, test : {"ok", "raise"}]
\* engine.dialect.name
dialect_name(url) == url[1]

NoDbExc == "none"
\* The steps of connect from the try on, for a connection string in URL form.
connect_url(url, d, oc) ==
    IF oc.create = "raise"
    THEN [db  |-> [d EXCEPT !.engine = "None"], exc |-> "ConnectionError"]
    ELSE IF oc.test = "raise"
         THEN [db  |-> [engine |-> "None", connection_string |-> url,
                        dialect |-> dialect_name(url)],
               exc |-> "ConnectionError"]
         ELSE [db  |-> [engine |-> "Engine", connection_string |-> url,
                        dialect |-> dialect_name(url)],
               exc |-> NoDbExc]

\* DatabaseConnection.connect
connect(cs, d, fs, oc) ==
    IF ~IsUrl(cs) /\ FirstExisting(cs, fs) = 0
    THEN [db |-> d, exc |-> "ValueError"]
    ELSE connect_url(IF IsUrl(cs) THEN cs
                     ELSE <<"sqlite", SchemeSep>>
                              \o abspath(possible_paths(cs)[FirstExisting(cs, fs)]),
                     d, oc)

\* DatabaseConnection.disconnect
disconnect(d) ==
    IF d.engine # "None"
    THEN [engine |-> "None", connection_string |-> <<>>, dialect |-> ""]
    ELSE d

NotEstablished == "Database connection not established. Use 'db_connect' first."
\* DatabaseConnection.get_engine: the exception it raises, if any.
get_engine(d) == IF d.engine = "None" THEN "ConnectionError" ELSE NoDbExc

DbReturn(tool, text) == [tool |-> tool, kind |-> "return", text |-> text]
DbRaise(tool, text) == [tool |-> tool, kind |-> "raise", text |-> text]

\* ConnectTool._run: the new connection state and the answer.
connect_tool(cs, d, fs, oc) ==
    IF cs = <<>>
    THEN [db |-> d, res |-> DbReturn("db_connect", <<Cross, "Missing connection_string parameter">>)]
    ELSE IF connect(cs, d, fs, oc).exc # NoDbExc
         THEN [db  |-> connect(cs, d, fs, oc).db,
               res |-> DbReturn("db_connect",
                                <<Cross, "Connection failed: ", connect(cs, d, fs, oc).exc>>)]
         ELSE [db  |-> connect(cs, d, fs, oc).db,
               res |-> DbReturn("db_connect", <<Check, "Connection successful. You can now use other database tools.">>)]

\* DisconnectTool._run
disconnect_tool(d) ==
    [db |-> disconnect(d), res |-> DbReturn("db_disconnect", <<Check, "Database connection closed.">>)]

TableTools == {"db_get_schema", "db_preview_table", "db_get_row_count"}
QueryTools == {"db_query", "db_download_csv"}
DataTools == {"db_list_tables"} \cup TableTools \cup QueryTools
\* The parameter a data tool is given: nothing, a table name, or a query.
ToolArgs == {"", "t", "select 1", "delete from t", "select 1;select 2"}
IsSelect(arg) == arg \in {"select 1", "select 1;select 2"}
\* What the database does with the statement of a connected tool.
QueryOutcomes == {"ok", "error"}

FailurePrefix(tool) ==
    CASE tool = "db_list_tables"   -> "Failed to list tables: "
      [] tool = "db_get_schema"    -> "Failed to get schema: "
      [] tool = "db_preview_table" -> "Preview failed: "
      [] tool = "db_get_row_count" -> "Row count failed: "
      [] tool = "db_query"         -> "Query failed: "
      [] tool = "db_download_csv"  -> "Export failed: "

\* The body of a data tool's try block: what it returns, or what it raises.
tool_body(tool, arg, d, oc) ==
    IF tool \in TableTools /\ arg = ""
    THEN DbReturn(tool, <<Cross, "Missing table_name parameter">>)
    ELSE IF tool \in QueryTools /\ arg = ""
    THEN DbReturn(tool, <<Cross, "Missing query parameter">>)
    ELSE IF tool = "db_download_csv" /\ ~IsSelect(arg)
    THEN DbReturn(tool, <<Cross, "Only SELECT queries can be exported to CSV">>)
    ELSE IF get_engine(d) # NoDbExc
    THEN DbRaise(tool, <<NotEstablished>>)
    ELSE IF tool = "db_query" /\ arg = "select 1;select 2"
    THEN DbReturn(tool, <<Cross, "Only single-statement queries are supported">>)
    ELSE IF oc = "error"
    THEN DbRaise(tool, <<"OperationalError">>)
    ELSE DbReturn(tool, <<Check, arg>>)

\* A data tool whose exceptions reach the caller.
data_tool_unguarded(tool, arg, d, oc) == tool_body(tool, arg, d, oc)

\* The _run of a data tool: the try block and its except Exception.
data_tool(tool, arg, d, oc) ==
    IF tool_body(tool, arg, d, oc).kind = "raise"
    THEN DbReturn(tool, <<Cross, FailurePrefix(tool)>> \o tool_body(tool, arg, d, oc).text)
    ELSE tool_body(tool, arg, d, oc)

NotConnectedText == <<Cross, "Not connected to any database">>
\* DatabaseToolkit.get_connection_status: get_connection_string returns the
\* stored string and raises nothing, so the except branch is never taken.
get_connection_status(d) ==
    DbReturn("get_connection_status",
             <<Check, "Connected to ", d.dialect, ": ">> \o mask_credentials(d.connection_string))

ConnStrings ==
    { <<>>, <<"sample">>, <<"sqlite", SchemeSep, "/data.db">>,
      <<"postgresql", SchemeSep, "u", ":", "p", "@", "host/db">> }

InitDb ==
    /\ context = initialize_context
    /\ history = <<>>
    /\ installed = {}
    /\ result = NoResult
    /\ trace = <<>>
    /\ calls = 0
    /\ uuids = 0
    /\ pyrun = NoPython
    /\ code = <<>>
    /\ cleaned = NotCleaned
    /\ partition = NotParted
    /\ submitted = <<>>
    /\ streams = OriginalStreams
    /\ shellrun = NotRun
    /\ rewrite = NotRewritten
    /\ db = NotConnected
    /\ dbresult = NoDbResult

Connect ==
    /\ \E cs \in ConnStrings, fs \in FileSystems, oc \in ConnectOutcomes :
           /\ db' = connect_tool(cs, db, fs, oc).db
           /\ dbresult' = connect_tool(cs, db, fs, oc).res
    /\ UNCHANGED <<context, history, installed, result, trace, calls, uuids, pyrun, code,
                   cleaned, partition, submitted, streams, shellrun, rewrite>>

Disconnect ==
    /\ db' = disconnect_tool(db).db
    /\ dbresult' = disconnect_tool(db).res
    /\ UNCHANGED <<context, history, installed, result, trace, calls, uuids, pyrun, code,
                   cleaned, partition, submitted, streams, shellrun, rewrite>>

DataTool ==
    /\ \E tool \in DataTools, arg \in ToolArgs, oc \in QueryOutcomes :
           dbresult' = data_tool(tool, arg, db, oc)
    /\ db' = db
    /\ UNCHANGED <<context, history, installed, result, trace, calls, uuids, pyrun, code,
                   cleaned, partition, submitted, streams, shellrun, rewrite>>

Status ==
    /\ dbresult' = get_connection_status(db)
    /\ db' = db
    /\ UNCHANGED <<context, history, installed, result, trace, calls, uuids, pyrun, code,
                   cleaned, partition, submitted, streams, shellrun, rewrite>>

NextDb == Connect \/ Disconnect \/ DataTool \/ Status
SpecDb == InitDb /\ [][NextDb]_vars

\* ------------------------------- the last-expression rewrite on its own
\* Lines 171-198 applied to every body of one to three statements, in a
\* namespace with or without x and with the temporary names of the rewrites
\* made so far.
RewriteStmts == {"x=5", "x+1", "print(1)", "1/0", "del(x)", "None", "'a'+'b'"}
RewriteBodies ==
    {<<a>> : a \in RewriteStmts}
        \cup {<<a, b>> : a, b \in RewriteStmts}
        \cup {<<a, b, c>> : a, b, c \in RewriteStmts}
RewriteStarts ==
    { [ctx |-> initialize_context, nuuid |-> 0],
      [ctx |-> Bind(initialize_context, "x", IntV("1")), nuuid |-> 0],
      [ctx |-> Bind(initialize_context, temp_var(1), StrV("ab")), nuuid |-> 1],
      [ctx |-> Bind(Bind(initialize_context, "x", IntV("5")), temp_var(1), IntV("6")),
       nuuid |-> 1] }

\* exec(code, self._context) of the text as written (line 198).
exec_plain(body, ctx) == ExecBody([i \in 1..Len(body) |-> Node(body[i])], ctx)
\* exec of the tree as lines 174-192 leave it.
exec_rewritten(body, ctx, tmp) == ExecBody(Nodes(body, tmp), ctx)

InitRewrite ==
    /\ \E st \in RewriteStarts : context = st.ctx /\ uuids = st.nuuid
    /\ history = <<>>
    /\ installed = {}
    /\ result = NoResult
    /\ trace = <<>>
    /\ calls = 0
    /\ pyrun = NoPython
    /\ code \in RewriteBodies
    /\ cleaned = NotCleaned
    /\ partition = NotParted
    /\ submitted = <<>>
    /\ streams = OriginalStreams
    /\ shellrun = NotRun
    /\ rewrite = NotRewritten
    /\ db = NotConnected
    /\ dbresult = NoDbResult

Rewrite ==
    /\ ~rewrite.done
    /\ rewrite' = [done      |-> TRUE,
                   tmp       |-> temp_var(uuids + 1),
                   plain     |-> exec_plain(code, context),
                   rewritten |-> exec_rewritten(code, context, temp_var(uuids + 1))]
    /\ UNCHANGED <<context, history, installed, result, trace, calls, uuids, pyrun, code,
                   cleaned, partition, submitted, streams, shellrun, db, dbresult>>

SpecRewrite == InitRewrite /\ [][Rewrite]_vars

\* ------------------------------------------ the partitioner on its own
\* The loop of lines 226-234 applied to every text of at most MaxLen atoms
\* over the shell marker, a newline, a blank, a word and a triple quote.
LineAlphabet == {Bang, NL, SP, "ls", "'''"}
LineInputs == UNION {[1..n -> LineAlphabet] : n \in 0..MaxLen}

InitLines ==
    /\ context = initialize_context
    /\ history = <<>>
    /\ installed = {}
    /\ result = NoResult
    /\ trace = <<>>
    /\ calls = 0
    /\ uuids = 0
    /\ pyrun = NoPython
    /\ code \in LineInputs
    /\ cleaned = NotCleaned
    /\ partition = NotParted
    /\ submitted = <<>>
    /\ streams = OriginalStreams
    /\ shellrun = NotRun
    /\ rewrite = NotRewritten
    /\ db = NotConnected
    /\ dbresult = NoDbResult

Partition ==
    /\ ~partition.done
    /\ partition' = [done   |-> TRUE,
                 shell  |-> shell_commands(split(code, NL)),
                 python |-> python_lines(split(code, NL))]
    /\ UNCHANGED <<context, history, installed, result, trace, calls, uuids, pyrun, code,
                   cleaned, submitted, streams, shellrun, rewrite, db, dbresult>>

SpecLines == InitLines /\ [][Partition]_vars

\* ============================================================ claims
Contains(text, piece) ==
    \E i \in 1..(Len(text) - Len(piece) + 1) : SubSeq(text, i, i + Len(piece) - 1) = piece

IsSuffix(piece, text) ==
    /\ Len(piece) <= Len(text)
    /\ SubSeq(text, Len(text) - Len(piece) + 1, Len(text)) = piece

AtomsOf(text) == {text[i] : i \in 1..Len(text)}

\* The names the statements of pycode assign or delete.
WrittenNames(pycode) ==
    {Assignments[a].name : a \in AtomsOf(pycode) \cap AssignAtoms}
        \cup (IF AtomsOf(pycode) \cap DelAtoms # {} THEN {"x"} ELSE {})

\* C1: every call of the execute entry point returns a string to its caller,
\* whatever the submitted code does (sys.exit() included); it never raises.
C1_ExecuteAlwaysReturns ==
    result.op = "execute" => result.kind = "return" /\ result.text # <<>>

\* C2: across an execute call every name bound before the call that the
\* submitted code neither assigns nor deletes is still bound, to the same
\* value, after it; and with x bound to 5 by an earlier call, the call x + 1
\* reports the last-expression value 6.
C2_StatePersistence ==
    [][calls' = calls + 1 =>
          /\ \A n \in DOMAIN context :
                n \notin WrittenNames(pyrun'.code) =>
                    n \in DOMAIN context' /\ context'[n] = context[n]
          /\ ("x" \in DOMAIN context /\ context["x"] = IntV("5")
                /\ pyrun'.code = <<"x+1">>) =>
                    result'.text = <<StdoutHeader, NL, NL, LastExprLabel, "6">>]_vars

\* x = 5 in one call, x + 1 in the next: 6 is reported and x is still 5.
C2_Witness ==
    /\ history = << <<"x=5">>, <<"x+1">> >>
    /\ result.op = "execute"
    /\ IsSuffix(<<LastExprLabel, "6">>, result.text)
    /\ "x" \in DOMAIN context
    /\ context["x"] = IntV("5")

\* C3: right after reset the names bound are exactly the default ones (no user
\* binding, no temporary name, no auto-imported alias) and the confirmation is
\* returned; so a second reset leaves the same names as the first.
C3_ResetRestoresDefaults ==
    result.op = "reset" =>
        /\ DOMAIN context = DefaultNames
        /\ DOMAIN context \cap (TempNameSet \cup AutoAliases \cup {"x", "y"}) = {}
        /\ result.kind = "return"
        /\ result.text = ResetConfirmation

\* A reset after a call that bound x and a call that bound a temporary name.
C3_Witness ==
    /\ result.op = "reset"
    /\ history = << <<"x=5">>, <<"'a'+'b'">> >>
    /\ uuids = 1

\* C4 (as stated): immediately after reset the history log is empty.
C4_ResetEmptiesHistory ==
    result.op = "reset" => history = <<>>

\* C4 (amended): reset leaves the history log as it was; the fragments
\* submitted before the reset are all still there, in order.
C4_ResetKeepsHistory ==
    [][result'.op = "reset" => history' = history]_vars

\* A reset with two fragments in the history, both still there.
C4_Witness ==
    /\ result.op = "reset"
    /\ Len(history) = 2
    /\ history[1] = <<"x=5">>

\* The final top-level statement of pycode is a bare expression.
FinalIsExpr(pycode) ==
    /\ Parses(pycode)
    /\ parse_body(pycode) # <<>>
    /\ IsExpr(parse_body(pycode)[Len(parse_body(pycode))])

\* The latest call evaluated code lines ending in a bare expression, and the
\* evaluation completed without an exception.
EchoCase ==
    /\ result.op = "execute"
    /\ pyrun.ran
    /\ FinalIsExpr(pyrun.code)
    /\ pyrun.raised = NoExc

\* C5 (as stated): in that case the stdout text ends with the labelled line
\* holding the representation of the value, whatever the value is (None too).
C5_EchoesEveryValue ==
    EchoCase =>
        IsSuffix(<<NL, LastExprLabel>> \o repr(context[pyrun.temp]), pyrun.stdout)

\* C5 (amended): in that case, when the value is not None the stdout text ends
\* with the labelled line holding its representation (with the fixed
\* placeholder line when the representation cannot be computed), and the
\* observation carries that stdout text; when the value is None no
\* last-expression line is appended.
C5_EchoesValuesNotNone ==
    EchoCase =>
        IF context[pyrun.temp] = NoneV
        THEN AtomsOf(pyrun.stdout) \cap {LastExprLabel, LastExprUnable} = {}
        ELSE /\ IF ReprRaises(context[pyrun.temp])
                THEN IsSuffix(<<NL, LastExprUnable>>, pyrun.stdout)
                ELSE IsSuffix(<<NL, LastExprLabel>> \o repr(context[pyrun.temp]),
                              pyrun.stdout)
             /\ result.kind = "return"
             /\ IsSuffix(<<StdoutHeader, NL>> \o pyrun.stdout, result.text)

\* 'a'+'b' alone: the observation ends with the labelled representation 'ab'.
C5_Witness ==
    /\ EchoCase
    /\ pyrun.code = <<"'a'+'b'">>
    /\ context[pyrun.temp] = StrV("ab")
    /\ IsSuffix(<<LastExprLabel, "'", "ab", "'">>, result.text)

\* C6: a call whose code lines do not end in a bare expression (an assignment
\* or another statement last, no statement at all, text that does not parse, no
\* code lines) appends no last-expression line and binds no temporary name.
C6_NoEchoWithoutFinalExpr ==
    [][(calls' = calls + 1 /\ ~(pyrun'.ran /\ FinalIsExpr(pyrun'.code))) =>
          /\ AtomsOf(pyrun'.stdout) \cap {LastExprLabel, LastExprUnable} = {}
          /\ AtomsOf(result'.text) \cap {LastExprLabel, LastExprUnable} = {}
          /\ (DOMAIN context') \cap TempNameSet \subseteq DOMAIN context]_vars

\* print('before') then y = 1: stdout is reported without a last-expression
\* line, y is bound and no temporary name is.
C6_Witness ==
    /\ pyrun.ran
    /\ pyrun.code = <<"print('before')", NL, "y=1">>
    /\ result.text = <<StdoutHeader, NL, "before", NL>>
    /\ "y" \in DOMAIN context
    /\ (DOMAIN context) \cap TempNameSet = {}

\* C7: when the submitted code writes to stdout and then raises, the call
\* returns, and the observation holds what was written in its PYTHON STDOUT
\* section and a non-empty PYTHON STDERR section.
C7_ErrorContainment ==
    (result.op = "execute" /\ pyrun.ran /\ pyrun.executed
        /\ pyrun.raised # NoExc /\ pyrun.stdout # <<>>) =>
        /\ result.kind = "return"
        /\ Contains(result.text, <<StdoutHeader, NL>> \o pyrun.stdout)
        /\ Contains(result.text, <<StderrHeader, NL>>)
        /\ pyrun.stderr # <<>>

\* C8: every shell line with a denylisted name among its tokens gets the
\* refusal text, and no host process is started for it.
C8_DangerousGate ==
    \A i \in 1..Len(trace) :
        (trace[i].ev = "shell" /\ IsDangerous(tokenize(trace[i].cmd))) =>
            trace[i].text = Refusal /\ trace[i].proc = NoProc

\* The pip executables a shell line may name.
PipExecutables == {<<"pip">>, <<"pip3">>, <<"pip3.11">>}
RewrittenInstall(tokens) ==
    ArgvProc(<< <<"sys.executable">>, <<"-m">>, <<"pip">>, <<"install">> >>
                \o SubSeq(tokens, 3, Len(tokens)))

\* C9 (as stated): a shell line invoking pip's install verb runs as
\* sys.executable -m pip install with the line's remaining arguments, whichever
\* pip executable its first token names.
C9_RewriteAnyExecutable ==
    \A i \in 1..Len(trace) :
        LET tokens == tokenize(trace[i].cmd)
        IN  (trace[i].ev = "shell" /\ Len(tokens) >= 2
                /\ tokens[1] \in PipExecutables /\ tokens[2] = <<"install">>) =>
                trace[i].proc = RewrittenInstall(tokens)

\* C9 (amended): a shell line whose first token is exactly pip or pip3 and
\* whose second token is install runs as sys.executable -m pip install with
\* the line's remaining arguments, not through the host shell.
C9_RewritePipAndPip3 ==
    \A i \in 1..Len(trace) :
        LET tokens == tokenize(trace[i].cmd)
        IN  (trace[i].ev = "shell" /\ Len(tokens) >= 2
                /\ tokens[1] \in {<<"pip">>, <<"pip3">>} /\ tokens[2] = <<"install">>) =>
                trace[i].proc = RewrittenInstall(tokens)

\* pip3 install numpy ran as sys.executable -m pip install numpy.
C9_Witness ==
    \E i \in 1..Len(trace) :
        /\ trace[i].cmd = <<"pip3", SP, "install", SP, "numpy">>
        /\ trace[i].proc.argv =
              << <<"sys.executable">>, <<"-m">>, <<"pip">>, <<"install">>, <<"numpy">> >>

\* ------------------------------------------------ fenced blocks (C10)
FencesOf(s) == {i \in 1..Len(s) : s[i] = Fence}
OpenFence(s) == Min(FencesOf(s))
CloseFence(s) == Max(FencesOf(s))
\* The newline ending the opening fence's line, and the one before the
\* closing fence's line.
HeaderEnd(s) == Min({i \in (OpenFence(s) + 1)..(CloseFence(s) - 1) : s[i] = NL})
FooterStart(s) == Max({i \in (OpenFence(s) + 1)..(CloseFence(s) - 1) : s[i] = NL})

\* s is exactly one fenced block spanning the whole string: whitespace, the
\* opening fence with an optional tag right after it and blanks up to the end
\* of its line, the inner lines, the closing fence on a line of its own
\* (blanks before it), whitespace.
IsFencedBlock(s) ==
    /\ Cardinality(FencesOf(s)) = 2
    /\ \A i \in 1..(OpenFence(s) - 1) : IsSpace(s[i])
    /\ \A i \in (CloseFence(s) + 1)..Len(s) : IsSpace(s[i])
    /\ \E i \in (OpenFence(s) + 1)..(CloseFence(s) - 1) : s[i] = NL
    /\ \A i \in (OpenFence(s) + 2)..(HeaderEnd(s) - 1) : s[i] = SP
    /\ \A i \in (FooterStart(s) + 1)..(CloseFence(s) - 1) : s[i] = SP

\* The text between the opening fence's line and the closing fence's line.
Inner(s) ==
    IF FooterStart(s) > HeaderEnd(s)
    THEN SubSeq(s, HeaderEnd(s) + 1, FooterStart(s) - 1)
    ELSE <<>>

\* The block has at least one inner line, and its first and its last inner
\* line hold more than whitespace.
InnerIsTrimmed(s) ==
    /\ FooterStart(s) > HeaderEnd(s)
    /\ ~LineIsBlank(split(Inner(s), NL)[1])
    /\ ~LineIsBlank(split(Inner(s), NL)[Len(split(Inner(s), NL))])

\* The block has no tag, or a tag made of word characters.
TagIsWord(s) ==
    HeaderEnd(s) > OpenFence(s) + 1 =>
        s[OpenFence(s) + 1] = SP \/ IsWord(s[OpenFence(s) + 1])

\* C10 (as stated): an input that is exactly one fenced block is normalized to
\* its inner text, an input without a fence is returned unchanged, and the
\* result is a string.
C10_BlockToInner ==
    cleaned.done =>
        /\ IsFencedBlock(code) => cleaned.text = Inner(code)
        /\ FencesOf(code) = {} => cleaned.text = code
        /\ AtomsOf(cleaned.text) \subseteq CleanAlphabet

\* C10 (amended): an input that is exactly one fenced block whose tag, if any,
\* is made of word characters and whose inner text has at least one line and
\* neither starts nor ends with a whitespace-only line is normalized to its
\* inner text; an input without a fence is returned unchanged; the result is
\* a string.
C10_TrimmedBlockToInner ==
    cleaned.done =>
        /\ (IsFencedBlock(code) /\ TagIsWord(code) /\ InnerIsTrimmed(code)) =>
              cleaned.text = Inner(code)
        /\ FencesOf(code) = {} => cleaned.text = code
        /\ AtomsOf(cleaned.text) \subseteq CleanAlphabet

\* A block tagged python holding x=5 is normalized to x=5.
C10_Witness ==
    /\ cleaned.done
    /\ code = <<Fence, "python", NL, "x=5", NL, Fence>>
    /\ cleaned.text = <<"x=5">>

\* ------------------------------------------- not one fenced block (C11)
\* The n-th fence of s, counted from the left.
NthFence(s, n) == CHOOSE f \in FencesOf(s) : Cardinality({g \in FencesOf(s) : g <= f}) = n

\* The fences at a and b delimit a block: a newline between them, blanks only
\* after the tag up to the end of the opening line, blanks only before the
\* closing fence on its line.
PairIsBlock(s, a, b) ==
    /\ \E i \in (a + 1)..(b - 1) : s[i] = NL
    /\ \A i \in (a + 2)..(b - 1) : (\A h \in (a + 1)..(i - 1) : s[h] # NL) => s[i] \in {SP, NL}
    /\ \A i \in (a + 1)..(b - 1) : (\A h \in (i + 1)..(b - 1) : s[h] # NL) => s[i] \in {SP, NL}

\* Text other than whitespace stands before the first fence of s.
TextBeforeFence(s) ==
    FencesOf(s) # {} /\ \E i \in 1..(OpenFence(s) - 1) : ~IsSpace(s[i])
\* Text other than whitespace stands after the last fence of s.
TextAfterFence(s) ==
    FencesOf(s) # {} /\ \E i \in (CloseFence(s) + 1)..Len(s) : ~IsSpace(s[i])
\* Some fence of s is never closed: the number of fences is odd.
UnterminatedFence(s) == Cardinality(FencesOf(s)) % 2 = 1
\* The only fence of s is never closed.
LoneFence(s) == Cardinality(FencesOf(s)) = 1
\* s holds two or more fenced blocks, the fences paired from the left.
MultipleBlocks(s) ==
    /\ Cardinality(FencesOf(s)) >= 4
    /\ Cardinality(FencesOf(s)) % 2 = 0
    /\ \A n \in 1..(Cardinality(FencesOf(s)) \div 2) :
          PairIsBlock(s, NthFence(s, 2 * n - 1), NthFence(s, 2 * n))

Marked(line) ==
    \E i \in 1..Len(line) : line[i] = Bang /\ \A h \in 1..(i - 1) : IsSpace(line[h])
\* What follows that marker, trimmed.
Remainder(line) ==
    strip(SubSeq(line, 1 + Min({i \in 1..Len(line) : line[i] = Bang}), Len(line)))
NotEmpty(text) == text # <<>>
Unmarked(line) == ~Marked(line)
Remainders(lines) ==
    [i \in 1..Len(lines) |-> IF Marked(lines[i]) THEN Remainder(lines[i]) ELSE <<>>]

\* C12: the shell lines are the trimmed remainders, those that are not empty,
\* of the lines whose stripped form begins with the marker, in input order;
\* the code lines are all the other lines, unchanged and in input order; a
\* marked line between the triple quotes of a string literal is a shell line.
C12_Partition ==
    partition.done =>
        /\ partition.shell = SelectSeq(Remainders(split(code, NL)), NotEmpty)
        /\ partition.python = SelectSeq(split(code, NL), Unmarked)

\* A marked line inside a triple-quoted literal: ls is a shell line, the
\* two quote lines are the code lines.
C12_Witness ==
    /\ partition.done
    /\ code = <<"'''", NL, Bang, "ls", NL, "'''">>
    /\ partition.shell = << <<"ls">> >>
    /\ partition.python = << <<"'''">>, <<"'''">> >>

\* ------------------------------------------- observation (C13 - C15)
IsPrefix(piece, text) ==
    Len(piece) <= Len(text) /\ SubSeq(text, 1, Len(piece)) = piece

\* The cleaned text of the latest execute call, and its shell lines.
LastInput == history[Len(history)]
InputCommands == SelectSeq(Remainders(split(LastInput, NL)), NotEmpty)

\* The latest call was an execute call that returned an observation.
Observed == result.op = "execute" /\ result.kind = "return"
\* The observation is the string of the outermost handler (line 263).
TopLevelError == result.text # <<>> /\ result.text[1] = ErrorPrefix

\* The shell section expected for the shell lines of the input: the header,
\* then for each line in input order its command and the text of its result.
ShellItems ==
    [i \in 1..(2 * Len(InputCommands)) |->
        IF i % 2 = 1 THEN <<"Executing: ">> \o InputCommands[(i + 1) \div 2]
        ELSE trace[i \div 2].text]
ShellSection == <<ShellHeader, NL>> \o join(ShellItems, <<NL>>)

ShellSectionInOrder ==
    /\ Len(trace) >= Len(InputCommands)
    /\ \A i \in 1..Len(InputCommands) :
          trace[i].ev = "shell" /\ trace[i].cmd = InputCommands[i]
    /\ IsPrefix(ShellSection, result.text)
    /\ \A i \in 1..Len(result.text) :
          result.text[i] \in {StdoutHeader, StderrHeader} => i > Len(ShellSection)

\* C13 (as stated): the observation has a SHELL OUTPUT: section exactly when
\* the input had a shell line; the section stands before every Python section
\* and holds the results of the shell lines in input order.
C13_ShellSectionIff ==
    Observed =>
        /\ (ShellHeader \in AtomsOf(result.text)) <=> (InputCommands # <<>>)
        /\ InputCommands # <<>> => ShellSectionInOrder

\* C13 (amended): the same for every observation that is not the error string
\* of the outermost handler; when a shell line's process cannot be run or its
\* output cannot be decoded the observation is that error string, without a
\* SHELL OUTPUT: section.
C13_ShellSectionUnlessError ==
    Observed =>
        IF TopLevelError
        THEN InputCommands # <<>> /\ ShellHeader \notin AtomsOf(result.text)
        ELSE /\ (ShellHeader \in AtomsOf(result.text)) <=> (InputCommands # <<>>)
             /\ InputCommands # <<>> => ShellSectionInOrder

\* print(2), then echo hi and ls as shell lines: both results, in input
\* order, before the PYTHON STDOUT: section.
C13_Witness ==
    /\ Observed
    /\ InputCommands = << <<"echo", SP, "hi">>, <<"ls">> >>
    /\ result.text = <<ShellHeader, NL, "Executing: ", "echo", SP, "hi", NL, "hi", NL, NL,
                       "Executing: ", "ls", NL, NL, NL, StdoutHeader, NL, "2", NL>>

\* The input of the latest call had code lines.
CodeLinesPresent == SelectSeq(split(LastInput, NL), Unmarked) # <<>>
PositionsOf(atom, text) == {i \in 1..Len(text) : text[i] = atom}

\* C14: an observation has a PYTHON STDOUT: section, holding the captured
\* stdout text, exactly when the input had code lines and that text is not
\* empty; it has a PYTHON STDERR: section, holding the captured stderr text,
\* exactly when the input had code lines and that text is not empty; the
\* STDOUT section stands before the STDERR section.
C14_PythonSections ==
    Observed =>
        /\ (StdoutHeader \in AtomsOf(result.text)) <=> (CodeLinesPresent /\ pyrun.stdout # <<>>)
        /\ (StderrHeader \in AtomsOf(result.text)) <=> (CodeLinesPresent /\ pyrun.stderr # <<>>)
        /\ pyrun.stdout # <<>> => Contains(result.text, <<StdoutHeader, NL>> \o pyrun.stdout)
        /\ pyrun.stderr # <<>> => IsSuffix(<<StderrHeader, NL>> \o pyrun.stderr, result.text)
        /\ \A i \in PositionsOf(StdoutHeader, result.text) :
              \A j \in PositionsOf(StderrHeader, result.text) : i < j

\* print('before') then 1/0: a STDOUT section with before, then a STDERR
\* section with the trace.
C14_Witness ==
    /\ Observed
    /\ LastInput = <<"print('before')", NL, "1/0">>
    /\ result.text = <<StdoutHeader, NL, "before", NL, NL, StderrHeader, NL>>
                         \o Traceback("Exception")

\* No shell line of the latest call printed anything and the evaluator
\* captured nothing.
NothingProduced ==
    /\ ~TopLevelError
    /\ \A i \in 1..Len(trace) : trace[i].ev = "shell" => trace[i].text = <<>>
    /\ pyrun.stdout = <<>>
    /\ pyrun.stderr = <<>>

\* C15 (as stated): an observation of a call that produced nothing on any
\* channel is the fallback string, also when shell lines ran and printed
\* nothing.
C15_FallbackWhenNothing ==
    (Observed /\ NothingProduced) => result.text = NoOutput

\* C15 (amended): the observation is the fallback string exactly when the
\* input had no shell line and the evaluator captured nothing on stdout and
\* stderr; a call with shell lines that printed nothing gets the SHELL OUTPUT:
\* section with the Executing: line of each shell line.
C15_FallbackWithoutShellLines ==
    Observed =>
        /\ (result.text = NoOutput) <=>
              (InputCommands = <<>> /\ pyrun.stdout = <<>> /\ pyrun.stderr = <<>>)
        /\ (InputCommands # <<>> /\ NothingProduced) =>
              /\ result.text = ShellSection
              /\ \A i \in 1..Len(InputCommands) :
                    Contains(result.text, <<"Executing: ">> \o InputCommands[i] \o <<NL>>)

\* ls as the only line, printing nothing: the observation is the shell
\* section with its Executing: line, not the fallback string.
C15_Witness ==
    /\ Observed
    /\ NothingProduced
    /\ LastInput = <<Bang, "ls", SP, "/tmp/rmdir">>
    /\ result.text = <<ShellHeader, NL, "Executing: ", "ls", SP, "/tmp/rmdir", NL>>

\* ------------------------------------------------------ history (C16)
\* The fence-stripped text of a submitted string that is one well-formed
\* fenced block or holds no fence.
Stripped(raw) == IF FencesOf(raw) = {} THEN raw ELSE Inner(raw)

\* What the latest call ran comes from the text it was given: its shell
\* events are the shell lines of that text, and the code evaluated is the
\* code lines of that text.
RanOnlyLastInput ==
    \A i \in 1..Len(trace) :
        IF trace[i].ev = "shell"
        THEN i <= Len(InputCommands) /\ trace[i].cmd = InputCommands[i]
        ELSE split(trace[i].cmd, NL) = SelectSeq(split(LastInput, NL), Unmarked)

\* C16: every execute call appends exactly one entry, the fence-stripped text
\* it was given, at the end of the history, whatever becomes of the call; no
\* step changes or removes an earlier entry; a call runs nothing but the text
\* it was given, and reset runs nothing.
C16_HistoryAppendOnly ==
    /\ [](result.op = "execute" =>
            /\ history # <<>>
            /\ LastInput = Stripped(submitted)
            /\ RanOnlyLastInput)
    /\ [][/\ IsPrefix(history, history')
           /\ IF calls' = calls + 1
              THEN Len(history') = Len(history) + 1
              ELSE Len(history') = Len(history) /\ trace' = <<>>]_vars

\* A call that failed to parse and a call that was refused are both in the
\* history, in submission order.
C16_Witness ==
    /\ history = << <<"x=">>, <<Bang, "rm", SP, "-rf", SP, "data">> >>
    /\ result.op = "execute"
    /\ result.text = <<ShellHeader, NL, "Executing: ", "rm", SP, "-rf", SP, "data", NL>>
                         \o Refusal

\* ----------------------------------------------------- ordering (C17)
\* The latest call ran every shell line of its input, in input order, and
\* then, when the input had code lines, evaluated them once; nothing else.
RanAllInOrder ==
    /\ Len(trace) = Len(InputCommands) + (IF CodeLinesPresent THEN 1 ELSE 0)
    /\ \A i \in 1..Len(InputCommands) :
          trace[i].ev = "shell" /\ trace[i].cmd = InputCommands[i]
    /\ CodeLinesPresent =>
          /\ trace[Len(trace)].ev = "python"
          /\ split(trace[Len(trace)].cmd, NL) = SelectSeq(split(LastInput, NL), Unmarked)
          /\ pyrun.ran

\* The latest call stopped at a shell line: the shell lines before it ran in
\* input order, the later ones and the code lines did not.
StoppedAtShellLine ==
    /\ trace # <<>>
    /\ Len(trace) <= Len(InputCommands)
    /\ \A i \in 1..Len(trace) : trace[i].ev = "shell" /\ trace[i].cmd = InputCommands[i]
    /\ ~pyrun.ran

\* C17 (as stated): when an execute call hands control back, every shell line
\* has run, in input order, and after them the code lines have been evaluated
\* exactly once, wherever the shell lines stood in the input.
C17_ShellThenCodeOnce ==
    result.op = "execute" => RanAllInOrder

\* C17 (amended): the same, unless running a shell line raised something
\* other than a non-zero exit: then the call returns the error string of the
\* outermost handler, and the later shell lines and the code lines are not
\* run at all.
C17_ShellThenCodeOnceUnlessError ==
    result.op = "execute" =>
        IF result.kind = "return" /\ TopLevelError
        THEN StoppedAtShellLine
        ELSE RanAllInOrder

\* print(2) before the shell lines echo hi and ls: echo hi ran, then ls, then
\* the code line.
C17_Witness ==
    /\ result.op = "execute"
    /\ LastInput = <<"print(2)", NL, Bang, "echo", SP, "hi", NL, SP, Bang, "ls">>
    /\ Len(trace) = 3
    /\ trace[1].cmd = <<"echo", SP, "hi">>
    /\ trace[2].cmd = <<"ls">>
    /\ trace[3].ev = "python"
    /\ trace[3].cmd = <<"print(2)">>

\* ------------------------------------------------ parse failure (C18)
\* The latest call evaluated code lines that do not parse.
ParseFailed == result.op = "execute" /\ pyrun.ran /\ ~Parses(pyrun.code)

\* C18 (as stated): when the code lines do not parse the evaluator still
\* attempts to execute the text; the call returns.
C18_RawExecutionAttempted ==
    ParseFailed => pyrun.executed /\ result.kind = "return"

\* C18 (amended): when the code lines do not parse nothing is executed: no
\* statement of the text takes effect (only aliases of the auto-import table
\* are new in the namespace), nothing is written to stdout, the trace of the
\* parse error is the captured stderr and is returned in the PYTHON STDERR:
\* section; nothing is raised.
C18_ParseFailureRunsNothing ==
    /\ [](ParseFailed =>
            /\ ~pyrun.executed
            /\ pyrun.stdout = <<>>
            /\ pyrun.stderr = Traceback("SyntaxError")
            /\ result.kind = "return"
            /\ IsSuffix(<<StderrHeader, NL>> \o pyrun.stderr, result.text)
            /\ StdoutHeader \notin AtomsOf(result.text))
    /\ [][(calls' = calls + 1 /\ pyrun'.ran /\ ~pyrun'.parsed) =>
              /\ \A n \in DOMAIN context : n \in DOMAIN context' /\ context'[n] = context[n]
              /\ (DOMAIN context') \ (DOMAIN context) \subseteq AutoAliases
              /\ uuids' = uuids]_vars

\* x=5 on the first line and the incomplete x= on the second: the trace of
\* the syntax error is returned and x is not bound.
C18_Witness ==
    /\ ParseFailed
    /\ pyrun.code = <<"x=5", NL, "x=">>
    /\ "x" \notin DOMAIN context
    /\ result.text = <<StderrHeader, NL>> \o Traceback("SyntaxError")

\* ------------------------------------------------- auto-binding (C19)
\* The aliases of the table whose library can be imported.
AvailableAliases ==
    {auto_imports[i].alias : i \in {j \in 1..Len(auto_imports) : auto_imports[j].top \in installed}}

\* C19 (as stated): after every execute call, one with shell lines only
\* included, every alias whose library is available is bound.
C19_BoundAfterEveryCall ==
    result.op = "execute" => AvailableAliases \subseteq DOMAIN context

\* C19 (amended): the table is consulted when the call evaluates code lines,
\* and only then.  After a call that evaluated code lines every alias whose
\* library is available is bound; across it an alias already present keeps
\* its value unless the code itself assigns it, an alias whose library is
\* not available is not bound by the table, and no import error reaches the
\* captured stderr.  A call that evaluates no code lines (shell lines only)
\* leaves the namespace as it was.
C19_BoundWhenCodeEvaluated ==
    /\ []((result.op = "execute" /\ pyrun.ran) =>
            /\ AvailableAliases \subseteq DOMAIN context
            /\ pyrun.raised = NoExc => pyrun.stderr = <<>>)
    /\ [][calls' = calls + 1 =>
              IF pyrun'.ran
              THEN \A a \in AutoAliases \ WrittenNames(pyrun'.code) :
                      /\ a \in DOMAIN context =>
                            a \in DOMAIN context' /\ context'[a] = context[a]
                      /\ (a \notin DOMAIN context /\ a \in DOMAIN context') =>
                            a \in AvailableAliases'
              ELSE context' = context]_vars

\* With pandas importable, pd = 7 in one call and x = 5 in the next: pd is
\* still 7, and np, whose library is missing, is not bound.
C19_Witness ==
    /\ history = << <<"pd=7">>, <<"x=5">> >>
    /\ result.op = "execute"
    /\ "pandas" \in installed
    /\ context["pd"] = IntV("7")
    /\ "np" \notin DOMAIN context

\* ------------------------------------------------ shell results (C20)
\* The prefix of the error text of a shell line, by the kind of the line.
ErrorPrefixOf(cmd) ==
    LET tokens == tokenize(cmd)
    IN  IF Len(tokens) >= 2 /\ tokens[2] = <<"install">> /\ tokens[1] \in {<<"pip">>, <<"pip3">>}
        THEN "PIP INSTALL ERROR:"
        ELSE IF Len(tokens) >= 2 /\ tokens[2] = <<"install">> /\ tokens[1] = <<"conda">>
        THEN "CONDA INSTALL ERROR:"
        ELSE "SHELL COMMAND ERROR:"

\* The i-th thing the latest call did was a shell line whose process exited.
Exited(i) == trace[i].ev = "shell" /\ trace[i].exit.kind = "exit"

\* C20: the result of a shell line whose process exits non-zero is the error
\* prefix of its kind, the captured stdout, the captured stderr and the exit
\* code; the result of one that exits with zero is stdout followed by stderr,
\* without a prefix; in both cases the call goes on and the result is part of
\* the returned observation (of whatever the call returns).
C20_NonZeroExitReported ==
    result.op = "execute" =>
        \A i \in 1..Len(trace) :
            Exited(i) =>
                /\ trace[i].text =
                      IF trace[i].exit.rc = "0"
                      THEN trace[i].exit.out \o trace[i].exit.err
                      ELSE <<ErrorPrefixOf(trace[i].cmd), NL>> \o trace[i].exit.out \o <<NL>>
                              \o trace[i].exit.err \o <<NL, "Return code: ", trace[i].exit.rc>>
                /\ (i < Len(trace) \/ Len(trace) = Len(InputCommands))
                /\ (Observed /\ ~TopLevelError) =>
                      Contains(result.text,
                               <<"Executing: ">> \o trace[i].cmd \o <<NL>> \o trace[i].text)

\* ls exiting with code 1 after writing to both streams.
C20_Witness ==
    /\ Observed
    /\ Len(trace) = 1
    /\ Exited(1)
    /\ trace[1].exit.rc = "1"
    /\ result.text = <<ShellHeader, NL, "Executing: ", "ls", SP, "/tmp/rmdir", NL,
                       "SHELL COMMAND ERROR:", NL, "part", NL, NL, "failed", NL, NL,
                       "Return code: ", "1">>

\* ----------------------------------------------------- denylist (C21)
\* A shell line that is no package-install line.
GenericLine(cmd) == ErrorPrefixOf(cmd) = "SHELL COMMAND ERROR:"
\* Some whitespace-delimited token of the line is a denylisted name.
HasDeniedToken(cmd) ==
    \E i \in 1..Len(tokenize(cmd)) :
        Len(tokenize(cmd)[i]) = 1 /\ tokenize(cmd)[i][1] \in dangerous_commands

\* C21: a generic shell line is refused (the refusal text, no process) exactly
\* when one of its tokens, at any position, is a denylisted name; otherwise it
\* is handed to the host shell as written, also when a token contains a
\* denylisted name as a substring.
C21_WholeTokenDenylist ==
    \A i \in 1..Len(trace) :
        (trace[i].ev = "shell" /\ GenericLine(trace[i].cmd)) =>
            IF HasDeniedToken(trace[i].cmd)
            THEN trace[i].text = Refusal /\ trace[i].proc = NoProc
            ELSE trace[i].text # Refusal /\ trace[i].proc = ShellProc(trace[i].cmd)

\* ls /tmp/rmdir is run by the host shell, and so is ls;rm written without
\* spaces, while echo kill is refused.
C21_Witness ==
    /\ Len(history) = 2
    /\ history[1] = <<Bang, "echo", SP, "kill">>
    /\ history[2] = <<Bang, "ls;rm">>
    /\ Len(trace) = 1
    /\ trace[1].proc = ShellProc(<<"ls;rm">>)
    /\ trace[1].exit.rc = "0"

RECURSIVE PrintedText(_)
PrintedText(pycode) ==
    IF pycode = <<>> THEN <<>>
    ELSE (CASE pycode[1] = "print('before')" -> <<"before", NL>>
            [] pycode[1] = "print(1)" -> <<"1", NL>>
            [] pycode[1] = "print(2)" -> <<"2", NL>>
            [] OTHER -> <<>>) \o PrintedText(Tail(pycode))

\* C23: when the representation of the last-expression value cannot be
\* computed the call returns; the captured stdout is what the code printed
\* followed by the placeholder line, and it is reported in the PYTHON STDOUT:
\* section; nothing is written to stderr.
C23_PlaceholderWhenReprFails ==
    (EchoCase /\ ReprRaises(context[pyrun.temp])) =>
        /\ result.kind = "return"
        /\ pyrun.stdout = PrintedText(pyrun.code) \o <<NL, LastExprUnable>>
        /\ pyrun.stderr = <<>>
        /\ IsSuffix(<<StdoutHeader, NL>> \o pyrun.stdout, result.text)

\* print('before') and then an object whose __repr__ cannot be called.
C23_Witness ==
    /\ EchoCase
    /\ pyrun.code = <<"print('before')", NL, "type('U',(),{'__repr__':None})()">>
    /\ context[pyrun.temp] = UnreprV
    /\ result.text = <<StdoutHeader, NL, "before", NL, NL, LastExprUnable>>

\* ------------------------------------------------------ timeout (C24)
\* The command is a package-install line (pip, pip3 or conda install).
InstallLine(cmd) == ~GenericLine(cmd)

\* C24 (as stated): the subprocess of a package-install line is run under a
\* timeout, so the runner returns also when that subprocess never exits.
C24_InstallTimesOut ==
    (shellrun.done /\ InstallLine(code) /\ shellrun.oc.kind = "hang") => shellrun.returned

C26_DataToolWithoutConnection ==
    /\ []((dbresult.tool \in DataTools /\ db.engine = "None") =>
             /\ dbresult.kind = "return"
             /\ dbresult.text # <<>>
             /\ dbresult.text[1] = Cross)
    /\ [][(dbresult'.tool \in DataTools /\ db.engine = "None") => db' = db]_vars

\* db_query before any connect: the answer is the failure text of get_engine.
C26_Witness ==
    /\ dbresult.tool = "db_query"
    /\ db = NotConnected
    /\ dbresult.kind = "return"
    /\ dbresult.text = <<Cross, "Query failed: ", NotEstablished>>

\* --------------------------------------------- connection status (C27)
\* C27: get_connection_status answers "Not connected to any database" when no
\* engine is stored and "Connected to ..." only when one is.
C27_StatusReflectsConnection ==
    dbresult.tool = "get_connection_status" =>
        IF db.engine = "None"
        THEN dbresult.text = NotConnectedText
        ELSE dbresult.text[1] = Check /\ dbresult.text[2] = "Connected to "

\* --------------------------------------------- state consistency (C30)
\* C30: the engine is absent exactly when the stored connection string and
\* dialect are empty, and after db_disconnect the state is the initial one.
C30_EngineAbsentIffEmpty ==
    /\ (db.engine = "None") <=> (db.connection_string = <<>> /\ db.dialect = "")
    /\ dbresult.tool = "db_disconnect" => db = NotConnected

\* ------------------------------------- refused and failed lines (C28)
\* The i-th thing the latest call did was a shell line that was refused, or
\* one whose process exited non-zero.
Refused(i) == trace[i].ev = "shell" /\ trace[i].proc = NoProc /\ trace[i].text = Refusal
Failed(i) == Exited(i) /\ trace[i].exit.rc # "0"

\* C28 (as stated): after a refused or failed shell line every later shell
\* line is run in input order and the code lines are evaluated, and the
\* observation carries the text of that line followed by the later results.
C28_RefusalDoesNotAbort ==
    result.op = "execute" =>
        \A i \in 1..Len(trace) :
            (Refused(i) \/ Failed(i)) =>
                /\ RanAllInOrder
                /\ Observed => ShellSectionInOrder

\* C28 (amended): the same, unless a later shell line raises something other
\* than a non-zero exit: then the call returns the error string of the
\* outermost handler, the lines after the raising one and the code lines are
\* not run, and the refused or failed line is not the one the call stopped at.
C28_RefusalDoesNotAbortUnlessError ==
    result.op = "execute" =>
        \A i \in 1..Len(trace) :
            (Refused(i) \/ Failed(i)) =>
                IF Observed /\ TopLevelError
                THEN StoppedAtShellLine /\ i < Len(trace)
                ELSE /\ RanAllInOrder
                     /\ Observed => ShellSectionInOrder

\* rm data is refused, echo hi still runs and print(2) is evaluated; the
\* observation has the refusal, then the result of echo hi, then the stdout.
C28_Witness ==
    /\ Observed
    /\ LastInput = <<Bang, "rm", SP, "data", NL, Bang, "echo", SP, "hi", NL, "print(2)">>
    /\ Len(trace) = 3
    /\ Refused(1)
    /\ trace[2].cmd = <<"echo", SP, "hi">>
    /\ trace[2].exit.rc = "0"
    /\ trace[3].ev = "python"
    /\ Contains(result.text,
                <<"Executing: ", "rm", SP, "data", NL>> \o Refusal
                    \o <<NL, "Executing: ", "echo", SP, "hi", NL, "hi", NL>>)
    /\ Contains(result.text, <<StdoutHeader, NL, "2", NL>>)

\* ------------------------------------------------- no rollback (C29)
\* Statements that raise in every namespace, and statements that raise in none.
AlwaysRaises == {"1/0", "assert(0)", "sys.exit()"}
NeverRaises == AssignAtoms \cup {"None", "'a'+'b'", "print('before')", "print(1)", "print(2)"}
\* The statement of body that raises when every statement before it cannot:
\* its position, 0 when there is none.
RaiseAt(body) ==
    IF \E k \in 1..Len(body) :
           body[k] \in AlwaysRaises /\ \A j \in 1..(k - 1) : body[j] \in NeverRaises
    THEN CHOOSE k \in 1..Len(body) :
           body[k] \in AlwaysRaises /\ \A j \in 1..(k - 1) : body[j] \in NeverRaises
    ELSE 0
\* The names body assigns in the statements at the positions of range.
AssignedIn(body, range) ==
    {Assignments[body[j]].name : j \in {i \in range : body[i] \in AssignAtoms}}
\* The names body assigns after the raise and not before it (the aliases of
\* the auto-imports left aside: the call itself may bind them).
AssignedOnlyAfter(body) ==
    AssignedIn(body, (RaiseAt(body) + 1)..Len(body))
        \ (AssignedIn(body, 1..(RaiseAt(body) - 1)) \cup AutoAliases)
\* The call that gave r evaluated code lines, recorded in p, that raised at a
\* statement which every statement before it let through.
RaisedPartWayIn(r, p) ==
    r.op = "execute" /\ p.ran /\ p.parsed /\ RaiseAt(parse_body(p.code)) # 0
RaisedPartWay == RaisedPartWayIn(result, pyrun)
\* Statement j of body makes the last assignment to its name before the raise.
LastAssignmentBeforeRaise(body, j) ==
    /\ body[j] \in AssignAtoms
    /\ \A l \in (j + 1)..(RaiseAt(body) - 1) :
          body[l] \in AssignAtoms => Assignments[body[l]].name # Assignments[body[j]].name

\* C29: when code lines raise part-way, the last assignment made to each name
\* before the raise is in the namespace (the namespace the next call starts
\* from), the temporary name of the rewrite is not bound, and no
\* last-expression line is in the captured stdout or in the observation; a
\* name assigned only after the raise is bound as it was before the call.
C29_NoRollback ==
    /\ [](RaisedPartWay =>
            /\ pyrun.raised # NoExc
            /\ \A j \in 1..(RaiseAt(parse_body(pyrun.code)) - 1) :
                  LastAssignmentBeforeRaise(parse_body(pyrun.code), j) =>
                      /\ Assignments[parse_body(pyrun.code)[j]].name \in DOMAIN context
                      /\ context[Assignments[parse_body(pyrun.code)[j]].name]
                            = Assignments[parse_body(pyrun.code)[j]].val
            /\ pyrun.rewritten => pyrun.temp \notin DOMAIN context
            /\ ~Contains(pyrun.stdout, <<LastExprLabel>>)
            /\ ~Contains(pyrun.stdout, <<LastExprUnable>>)
            /\ Observed => ~Contains(result.text, <<LastExprLabel>>))
    /\ [][(calls' = calls + 1 /\ RaisedPartWayIn(result', pyrun')) =>
            \A n \in AssignedOnlyAfter(parse_body(pyrun'.code)) :
                /\ n \in DOMAIN context' <=> n \in DOMAIN context
                /\ n \in DOMAIN context => context'[n] = context[n]]_vars

\* x = 5, 1/0, y = 1, x + 1 raised at 1/0; the next call x + 1 sees x and
\* answers 6, while y was never bound.
C29_Witness ==
    /\ Observed
    /\ history = << <<"x=5", NL, "1/0", NL, "y=1", NL, "x+1">>, <<"x+1">> >>
    /\ context["x"] = IntV("5")
    /\ "y" \notin DOMAIN context
    /\ "__temp_u1" \notin DOMAIN context
    /\ context["__temp_u2"] = IntV("6")
    /\ Contains(result.text, <<LastExprLabel, "6">>)

====
